---------------------------- MODULE Spec2Model ----------------------------
(***************************************************************************)
(* A model of go-bru: the byte-driven scanner, the decoder that drives it   *)
(* (Read) and the encoder (Encoder.Write).                                 *)
(*                                                                         *)
(* Bytes are integers 0..255, a []byte or string is a sequence of bytes.   *)
(* A nil error is the empty sequence, an error e is the sequence <<e>>.    *)
(***************************************************************************)
EXTENDS Integers, Sequences, FiniteSets, TLC

(***************************************************************************)
(* Text helpers: the printable ASCII characters, to write byte strings     *)
(* readably and to build error messages.                                   *)
(***************************************************************************)
Printable ==
    <<" ", "!", "\"", "#", "$", "%", "&", "'", "(", ")", "*", "+", ",", "-", ".", "/",
      "0", "1", "2", "3", "4", "5", "6", "7", "8", "9", ":", ";", "<", "=", ">", "?",
      "@", "A", "B", "C", "D", "E", "F", "G", "H", "I", "J", "K", "L", "M", "N", "O",
      "P", "Q", "R", "S", "T", "U", "V", "W", "X", "Y", "Z", "[", "\\", "]", "^", "_",
      "<backtick>", "a", "b", "c", "d", "e", "f", "g", "h", "i", "j", "k", "l", "m", "n", "o",
      "p", "q", "r", "s", "t", "u", "v", "w", "x", "y", "z", "{", "|", "}", "~">>

\* The byte of a one-character string.
Ord(ch) ==
    IF ch = "\n" THEN 10
    ELSE IF ch = "\t" THEN 9
    ELSE IF ch = "\r" THEN 13
    ELSE 31 + (CHOOSE i \in 1..Len(Printable) : Printable[i] = ch)

OrdTable == [ch \in {Printable[i] : i \in 1..Len(Printable)} \cup {"\n", "\t", "\r"} |-> Ord(ch)]

\* The bytes of a text given as a sequence of one-character strings.
B(chars) == [i \in 1..Len(chars) |-> OrdTable[chars[i]]]

\* The element of a one-element set.  Only({e(x) : x \in {v}}) is e(v) with v
\* worked out once.
Only(S) == CHOOSE x \in S : TRUE

RECURSIVE Flatten(_)
Flatten(ss) == IF ss = <<>> THEN <<>> ELSE Head(ss) \o Flatten(Tail(ss))

\* Go's data[a:b] on a 0-based buffer (callers check 0 <= a <= b <= len).
Slice(data, a, b) == SubSeq(data, a + 1, b)

SliceOK(data, a, b) == 0 <= a /\ a <= b /\ b <= Len(data)

\* The bytes of a Go string literal of printable ASCII, \n, \t and \r.
Text(str) == [i \in 1..Len(str) |-> OrdTable[SubSeq(str, i, i)]]

\* The byte of a lower-case hexadecimal digit.
HexDigit(n) == IF n < 10 THEN 48 + n ELSE 87 + n

\* strconv.Quote(string(c)) without its two quotation marks, as bytes.
\* string(c) is the UTF-8 text of the code point c; Quote backslashes the
\* quotation mark and the backslash, keeps what strconv.IsPrint accepts
\* (32..126, 161..255 but 173), and escapes the rest: a letter for the
\* bytes 7..13, \x and two digits below 32 and for 127, \u and four digits
\* for the others.
QuotedByte(c) ==
    IF c = 34 \/ c = 92 THEN <<92, c>>
    ELSE IF c >= 32 /\ c <= 126 THEN <<c>>
    ELSE IF c >= 161 /\ c # 173 THEN <<192 + (c \div 64), 128 + (c % 64)>>
    ELSE IF c = 7 THEN <<92, 97>>
    ELSE IF c = 8 THEN <<92, 98>>
    ELSE IF c = 12 THEN <<92, 102>>
    ELSE IF c = 10 THEN <<92, 110>>
    ELSE IF c = 13 THEN <<92, 114>>
    ELSE IF c = 9 THEN <<92, 116>>
    ELSE IF c = 11 THEN <<92, 118>>
    ELSE IF c < 32 \/ c = 127 THEN <<92, 120, HexDigit(c \div 16), HexDigit(c % 16)>>
    ELSE <<92, 117, 48, 48, HexDigit(c \div 16), HexDigit(c % 16)>>

quoteChar(c) ==
    IF c = 39 THEN <<39, 92, 39, 39>>
    ELSE IF c = 34 THEN <<39, 34, 39>>
    ELSE <<39>> \o QuotedByte(c) \o <<39>>

\* string(bytes): the same bytes.
GoString(bs) == bs

(***************************************************************************)
(* The scanner: opcodes, parse states, the tag table.                      *)
(***************************************************************************)
scanContinue == 0
scanSkipSpace == 1
scanBeginTag == 2
scanEndTag == 3
scanBeginArray == 4
scanBeginText == 5
scanBeginDictionary == 6
scanEndBlock == 7
scanEndArray == 8
scanArrayValue == 9
scanDictionaryKey == 10
scanDictionaryValue == 11
scanTextLine == 12
scanEnd == 13
scanError == 14

parseArrayValue == 0
parseDictionaryKey == 1
parseDictionaryValue == 2
parseTextValue == 3

dictionaryBlock == 0
textBlock == 1
arrayBlock == 2

maxNestingDepth == 1

tags ==
    << B(<<"m","e","t","a">>),
       B(<<"v","a","r","s",":","s","e","c","r","e","t">>),
       B(<<"b","o","d","y">>),
       B(<<"t","e","s","t","s">>),
       B(<<"g","e","t">>),
       B(<<"p","o","s","t">>),
       B(<<"p","u","t">>),
       B(<<"d","e","l","e","t","e">>),
       B(<<"o","p","t","i","o","n","s">>),
       B(<<"t","r","a","c","e">>),
       B(<<"c","o","n","n","e","c","t">>),
       B(<<"h","e","a","d">>),
       B(<<"q","u","e","r","y">>),
       B(<<"h","e","a","d","e","r","s">>),
       B(<<"b","o","d","y",":","t","e","x","t">>),
       B(<<"b","o","d","y",":","x","m","l">>),
       B(<<"b","o","d","y",":","f","o","r","m","-","u","r","l","e","n","c","o","d","e","d">>),
       B(<<"b","o","d","y",":","m","u","l","t","i","p","a","r","t","-","f","o","r","m">>),
       B(<<"b","o","d","y",":","g","r","a","p","h","q","l">>),
       B(<<"b","o","d","y",":","g","r","a","p","h","q","l",":","v","a","r","s">>),
       B(<<"s","c","r","i","p","t",":","p","r","e","-","r","e","q","u","e","s","t">>),
       B(<<"s","c","r","i","p","t",":","p","o","s","t","-","r","e","s","p","o","n","s","e">>),
       B(<<"b","o","d","y",":","t","e","s","t">>),
       B(<<"b","o","d","y",":","j","s","o","n">>),
       B(<<"a","s","s","e","r","t">>),
       B(<<"v","a","r","s">>) >>

\* A block type table that makes every body and script tag but body:text and
\* body:test a dictionary tag.
blockTypesAsListed ==
    << dictionaryBlock, arrayBlock, dictionaryBlock, textBlock,
       dictionaryBlock, dictionaryBlock, dictionaryBlock, dictionaryBlock,
       dictionaryBlock, dictionaryBlock, dictionaryBlock, dictionaryBlock,
       dictionaryBlock, dictionaryBlock, textBlock, dictionaryBlock,
       dictionaryBlock, dictionaryBlock, dictionaryBlock, dictionaryBlock,
       dictionaryBlock, dictionaryBlock, textBlock, dictionaryBlock,
       dictionaryBlock, dictionaryBlock >>

blockTypes ==
    << dictionaryBlock, arrayBlock, textBlock, textBlock, dictionaryBlock, dictionaryBlock,
       dictionaryBlock, dictionaryBlock,
       dictionaryBlock, dictionaryBlock, dictionaryBlock, dictionaryBlock, dictionaryBlock,
       dictionaryBlock, textBlock, textBlock,
       dictionaryBlock, dictionaryBlock, textBlock, textBlock, textBlock,
       textBlock, textBlock, textBlock, dictionaryBlock, dictionaryBlock >>

\* The index of the first entry of list equal to x, 0 when there is none.
IndexIn(list, x) ==
    IF \E i \in 1..Len(list) : list[i] = x
    THEN CHOOSE i \in 1..Len(list) : list[i] = x /\ \A j \in 1..(i - 1) : list[j] # x
    ELSE 0

\* for i, t := range tags { if tag == t ... }: the index of the matching entry.
TagIndex(tag) == IndexIn(tags, tag)

(***************************************************************************)
(* The scanner: a record; step holds the name of the state function.       *)
(***************************************************************************)
nil == <<>>

\* A SyntaxError.  msg is kept as the parts error() and eof() join: the text
\* parts as strings, the offending byte and the tag name as bytes; ErrorText
\* is the joined text, the bytes of the Go string.
SyntaxError(msg, offset) == [msg |-> msg, Offset |-> offset]

ErrorText(e) ==
    IF Len(e.msg) = 1 THEN Text(e.msg[1])
    ELSE Text(e.msg[1]) \o quoteChar(e.msg[2]) \o Text(e.msg[3]) \o Text(e.msg[4])
         \o (IF Len(e.msg) > 4 THEN GoString(e.msg[5]) ELSE <<>>)

\* The zero value scanner{}.
ZeroScanner ==
    [step |-> "nil", endBlock |-> FALSE, parseState |-> <<>>, err |-> nil,
     bytes |-> 0, tagName |-> <<>>]

reset(s) ==
    [s EXCEPT !.step = "stateBeginBlockLine", !.parseState = <<>>, !.err = nil,
              !.endBlock = FALSE, !.tagName = <<>>]

\* What a state function returns: the scanner as it leaves it, and the opcode.
Ret(s, op) == [s |-> s, op |-> op]

\* An error that records the error and leaves the step function as it is.
errorKeepStep(s, c, context) ==
    Ret([s EXCEPT !.err = <<SyntaxError(<<"invalid character ", c, " ">> \o context, s.bytes)>>],
        scanError)

error(s, c, context) ==
    Ret([s EXCEPT !.step = "stateError",
                  !.err = <<SyntaxError(<<"invalid character ", c, " ">> \o context, s.bytes)>>],
        scanError)

\* A pushParseState whose depth test is strict: no entry fits the stack.
pushParseStateStrict(s, c, newParseState, successState) ==
    LET s1 == [s EXCEPT !.parseState = Append(s.parseState, newParseState)]
    IN  IF Len(s1.parseState) < maxNestingDepth
        THEN Ret(s1, successState)
        ELSE error(s1, c, <<"exceeded max depth">>)

pushParseState(s, c, newParseState, successState) ==
    LET s1 == [s EXCEPT !.parseState = Append(s.parseState, newParseState)]
    IN  IF Len(s1.parseState) <= maxNestingDepth
        THEN Ret(s1, successState)
        ELSE error(s1, c, <<"exceeded max depth">>)

\* A popParseState that leaves the entry on the stack.
popParseStateKeep(s) ==
    [s EXCEPT !.endBlock = TRUE, !.step = "stateBeginBlockLine"]

popParseState(s) ==
    [s EXCEPT !.parseState = SubSeq(s.parseState, 1, Len(s.parseState) - 1),
              !.endBlock = TRUE,
              !.step = "stateBeginBlockLine"]

isSpace(c) == c <= 32 /\ (c = 32 \/ c = 9 \/ c = 13 \/ c = 10)

isHex(c) == (48 <= c /\ c <= 57) \/ (97 <= c /\ c <= 102) \/ (65 <= c /\ c <= 70)

\* A checkTag that lets a tag outside the table through as a dictionary tag.
checkTagAny(s, c) ==
    LET tagName == s.tagName
        s1 == [s EXCEPT !.tagName = <<>>, !.step = "stateWaitingForOpenBlock"]
        i == TagIndex(tagName)
    IN  IF i # 0 /\ blockTypes[i] = arrayBlock
        THEN pushParseState(s1, c, parseArrayValue, scanEndTag)
        ELSE IF i # 0 /\ blockTypes[i] = textBlock
        THEN pushParseState(s1, c, parseTextValue, scanEndTag)
        ELSE pushParseState(s1, c, parseDictionaryKey, scanEndTag)

checkTag(s, c) ==
    LET tagName == s.tagName
        s1 == [s EXCEPT !.tagName = <<>>]
        i == TagIndex(tagName)
    IN  IF i # 0
        THEN LET s2 == [s1 EXCEPT !.step = "stateWaitingForOpenBlock"]
             IN  IF blockTypes[i] = dictionaryBlock
                 THEN pushParseState(s2, c, parseDictionaryKey, scanEndTag)
                 ELSE IF blockTypes[i] = arrayBlock
                 THEN pushParseState(s2, c, parseArrayValue, scanEndTag)
                 ELSE pushParseState(s2, c, parseTextValue, scanEndTag)
        ELSE error(s1, c, <<"invalid tag name: ", tagName>>)

stateReadingTag(s, c) ==
    IF isSpace(c)
    THEN checkTag(s, c)
    ELSE Ret([s EXCEPT !.tagName = Append(s.tagName, c)], scanContinue)

\* An index into an empty parse stack is a run-time panic.
scanPanic == 15

Panic(s) == Ret([s EXCEPT !.step = "panic"], scanPanic)

stateWaitingForOpenBlock(s, c) ==
    IF isSpace(c) THEN Ret(s, scanSkipSpace)
    ELSE IF Len(s.parseState) = 0 THEN Panic(s)
    ELSE LET ps == s.parseState[Len(s.parseState)]
         IN  IF ps = parseDictionaryKey /\ c = 123
             THEN Ret([s EXCEPT !.step = "stateOpenBlock"], scanBeginDictionary)
             ELSE IF ps = parseTextValue /\ c = 123
             THEN Ret([s EXCEPT !.step = "stateOpenBlock"], scanBeginText)
             ELSE IF ps = parseArrayValue /\ c = 91
             THEN Ret([s EXCEPT !.step = "stateOpenBlock"], scanBeginArray)
             ELSE error(s, c, <<"unexpected char after block name">>)

\* A stateBeginBlockLine that leaves the end flag as it is when a tag begins.
stateBeginBlockLineKeepEnd(s, c) ==
    IF isSpace(c) THEN Ret(s, scanSkipSpace)
    ELSE IF c > 96 /\ c < 123
    THEN Ret([s EXCEPT !.tagName = <<c>>, !.step = "stateReadingTag"], scanBeginTag)
    ELSE Ret(s, scanEnd)

stateBeginBlockLine(s, c) ==
    IF isSpace(c) THEN Ret(s, scanSkipSpace)
    ELSE IF c > 96 /\ c < 123
    THEN Ret([s EXCEPT !.tagName = <<c>>, !.endBlock = FALSE, !.step = "stateReadingTag"],
             scanBeginTag)
    ELSE Ret(s, scanEnd)

stateEndValue(s, c) ==
    IF Len(s.parseState) = 0 THEN Panic(s)
    ELSE
    LET n == Len(s.parseState)
        ps == s.parseState[n]
    IN  IF ps = parseTextValue
        THEN IF c = 10 THEN Ret([s EXCEPT !.step = "stateNewTextLine"], scanTextLine)
             ELSE IF c = 125 THEN Ret(popParseState(s), scanEndBlock)
             ELSE error(s, c, <<"after text line">>)
        ELSE IF ps = parseDictionaryKey
        THEN IF isSpace(c) THEN Ret([s EXCEPT !.step = "stateEndValue"], scanSkipSpace)
             ELSE IF c = 58
             THEN Ret([s EXCEPT !.parseState[n] = parseDictionaryValue,
                                !.step = "stateBeginDictionaryValue"], scanDictionaryValue)
             ELSE error(s, c, <<"after dictionary key ">>)
        ELSE IF ps = parseDictionaryValue
        THEN IF c = 44 \/ c = 10
             THEN Ret([s EXCEPT !.parseState[n] = parseDictionaryKey,
                                !.step = "stateNewDictionaryPair"], scanDictionaryKey)
             ELSE IF c = 125 THEN Ret(popParseState(s), scanEndBlock)
             ELSE error(s, c, <<"after dictionary key:value pair">>)
        ELSE IF ps = parseArrayValue
        THEN IF isSpace(c) THEN Ret([s EXCEPT !.step = "stateEndValue"], scanSkipSpace)
             ELSE IF c = 44 THEN Ret([s EXCEPT !.step = "stateNewArrayValue"], scanArrayValue)
             ELSE IF c = 93 THEN Ret(popParseState(s), scanEndArray)
             ELSE error(s, c, <<"after array element">>)
        ELSE error(s, c, <<"">>)

stateInStringEsc(s, c) ==
    IF c \in {98, 102, 110, 114, 116, 92, 47, 34}
    THEN Ret([s EXCEPT !.step = "stateInValue"], scanContinue)
    ELSE IF c = 117
    THEN Ret([s EXCEPT !.step = "stateInStringEscU"], scanContinue)
    ELSE error(s, c, <<"in string escape code">>)

stateInStringEscU(s, c) ==
    IF isHex(c) THEN Ret([s EXCEPT !.step = "stateInStringEscU1"], scanContinue)
    ELSE error(s, c, <<"in \\u hexadecimal character escape">>)

stateInStringEscU1(s, c) ==
    IF isHex(c) THEN Ret([s EXCEPT !.step = "stateInStringEscU12"], scanContinue)
    ELSE error(s, c, <<"in \\u hexadecimal character escape">>)

stateInStringEscU12(s, c) ==
    IF isHex(c) THEN Ret([s EXCEPT !.step = "stateInStringEscU123"], scanContinue)
    ELSE error(s, c, <<"in \\u hexadecimal character escape">>)

stateInStringEscU123(s, c) ==
    IF isHex(c) THEN Ret([s EXCEPT !.step = "stateInValue"], scanContinue)
    ELSE error(s, c, <<"in \\u hexadecimal character escape">>)

stateInKey(s, c) ==
    IF c = 58 THEN stateEndValue(s, c)
    ELSE IF c = 92 THEN Ret([s EXCEPT !.step = "stateInStringEsc"], scanContinue)
    ELSE IF c < 32 THEN error(s, c, <<"in key">>)
    ELSE Ret(s, scanContinue)

stateInValue(s, c) ==
    IF c = 92 THEN Ret([s EXCEPT !.step = "stateInStringEsc"], scanContinue)
    ELSE IF c = 10 THEN stateEndValue(s, c)
    ELSE IF c < 32 THEN error(s, c, <<"in value literal">>)
    ELSE Ret(s, scanContinue)

stateBeginDictionaryValue(s, c) ==
    IF c = 10 THEN stateEndValue(s, c)
    ELSE IF isSpace(c) THEN Ret(s, scanSkipSpace)
    ELSE stateInValue([s EXCEPT !.step = "stateInValue"], c)

stateInText(s, c) ==
    IF c = 10 THEN stateEndValue(s, c) ELSE Ret(s, scanContinue)

stateNewTextLine(s, c) ==
    IF c = 125 THEN Ret(popParseState(s), scanEndBlock)
    ELSE Ret([s EXCEPT !.step = "stateInText"], scanTextLine)

stateNewArrayValue(s, c) ==
    IF isSpace(c) THEN Ret(s, scanSkipSpace)
    ELSE IF c = 93 THEN Ret(popParseState(s), scanEndBlock)
    ELSE stateInValue([s EXCEPT !.step = "stateInValue"], c)

stateNewDictionaryPair(s, c) ==
    IF isSpace(c) THEN Ret(s, scanSkipSpace)
    ELSE IF c = 125 THEN Ret(popParseState(s), scanEndBlock)
    ELSE stateInKey([s EXCEPT !.step = "stateInKey"], c)

stateOpenBlock(s, c) ==
    IF Len(s.parseState) = 0 THEN Panic(s)
    ELSE
    LET ps == s.parseState[Len(s.parseState)]
    IN  IF ps = parseDictionaryKey
        THEN IF isSpace(c) THEN Ret(s, scanSkipSpace) ELSE stateNewDictionaryPair(s, c)
        ELSE IF ps = parseArrayValue
        THEN IF isSpace(c) THEN Ret(s, scanSkipSpace) ELSE stateNewArrayValue(s, c)
        ELSE IF ps = parseTextValue
        THEN Ret([s EXCEPT !.step = "stateNewTextLine"], scanSkipSpace)
        ELSE error(s, c, <<"no state for block">>)

stateBeginValueOrEmpty(s, c) ==
    IF isSpace(c) THEN Ret(s, scanSkipSpace)
    ELSE IF c = 93 THEN stateEndValue(s, c)
    ELSE stateBeginBlockLine(s, c)

stateError(s, c) == Ret(s, scanError)

\* s.step(s, c): the call through the function value held in s.step.
Step(s, c) ==
    CASE s.step = "stateBeginBlockLine" -> stateBeginBlockLine(s, c)
      [] s.step = "stateReadingTag" -> stateReadingTag(s, c)
      [] s.step = "stateWaitingForOpenBlock" -> stateWaitingForOpenBlock(s, c)
      [] s.step = "stateOpenBlock" -> stateOpenBlock(s, c)
      [] s.step = "stateEndValue" -> stateEndValue(s, c)
      [] s.step = "stateNewDictionaryPair" -> stateNewDictionaryPair(s, c)
      [] s.step = "stateNewArrayValue" -> stateNewArrayValue(s, c)
      [] s.step = "stateNewTextLine" -> stateNewTextLine(s, c)
      [] s.step = "stateInText" -> stateInText(s, c)
      [] s.step = "stateInKey" -> stateInKey(s, c)
      [] s.step = "stateBeginDictionaryValue" -> stateBeginDictionaryValue(s, c)
      [] s.step = "stateInValue" -> stateInValue(s, c)
      [] s.step = "stateInStringEsc" -> stateInStringEsc(s, c)
      [] s.step = "stateInStringEscU" -> stateInStringEscU(s, c)
      [] s.step = "stateInStringEscU1" -> stateInStringEscU1(s, c)
      [] s.step = "stateInStringEscU12" -> stateInStringEscU12(s, c)
      [] s.step = "stateInStringEscU123" -> stateInStringEscU123(s, c)
      [] s.step = "stateBeginValueOrEmpty" -> stateBeginValueOrEmpty(s, c)
      [] s.step = "stateError" -> stateError(s, c)
      [] OTHER -> Panic(s)

\* An eof that reports the end of input whatever the synthetic space met.
eofOverwrite(s) ==
    IF s.err # nil THEN Ret(s, scanError)
    ELSE IF s.endBlock THEN Ret(s, scanEnd)
    ELSE Only({ IF s1.endBlock THEN Ret(s1, scanEnd)
                ELSE Ret([s1 EXCEPT !.err = <<SyntaxError(<<"unexpected end of Bru input">>,
                                                          s1.bytes)>>],
                         scanError) :
                s1 \in {Step(s, 32).s} })

eof(s) ==
    IF s.err # nil THEN Ret(s, scanError)
    ELSE IF s.endBlock THEN Ret(s, scanEnd)
    ELSE Only({ IF s1.endBlock THEN Ret(s1, scanEnd)
                ELSE IF s1.err = nil
                THEN Ret([s1 EXCEPT !.err = <<SyntaxError(<<"unexpected end of Bru input">>,
                                                          s1.bytes)>>],
                         scanError)
                ELSE Ret(s1, scanError) :
                s1 \in {Step(s, 32).s} })

\* checkValid: the for loop over the bytes i..j (1-based) of data, entered
\* with l = [scan, err]; err is the error of the first byte that is refused
\* and ends the loop.  The range is walked in halves, in order.
RECURSIVE checkValidRange(_, _, _, _)
checkValidRange(data, l, i, j) ==
    IF l.err # nil \/ i > j THEN l
    ELSE IF i = j
    THEN Only({ [scan |-> r.s, err |-> IF r.op = scanError THEN r.s.err ELSE nil] :
                r \in {Step([l.scan EXCEPT !.bytes = l.scan.bytes + 1], data[i])} })
    ELSE Only({ checkValidRange(data, left, ((i + j) \div 2) + 1, j) :
                left \in {checkValidRange(data, l, i, (i + j) \div 2)} })

\* checkValid: the for loop from byte i on.  scan is the scanner as the loop
\* leaves it.
checkValidLoop(data, s, i) == checkValidRange(data, [scan |-> s, err |-> nil], i, Len(data))

\* checkValid: reset, the loop, then eof.
checkValid(data, scan) ==
    Only({ IF l.err # nil THEN l
           ELSE Only({ [scan |-> r.s, err |-> IF r.op = scanError THEN r.s.err ELSE nil] :
                       r \in {eof(l.scan)} }) :
           l \in {checkValidLoop(data, reset(scan), 1)} })

\* Valid: checkValid on a scanner whose byte count is zero.
Valid(data) == checkValid(data, ZeroScanner).err = nil

(***************************************************************************)
(* structs.go: the three block variants.  A block is a record; kind is the *)
(* Go type.  A nil ContentBlock is NilBlock.                               *)
(***************************************************************************)
NilBlock == [kind |-> "nil"]

DictionaryElement(key, value) == [Key |-> key, Value |-> value]

DictionaryBlock(name, type, content) ==
    [kind |-> "DictionaryBlock", Name |-> name, Type |-> type, Content |-> content]

TextBlock(name, type, content) ==
    [kind |-> "TextBlock", Name |-> name, Type |-> type, Content |-> content]

ArrayBlock(name, type, content) ==
    [kind |-> "ArrayBlock", Name |-> name, Type |-> type, Content |-> content]

\* strings.Cut(tag, ":"): the text before the first ':' and the text after it.
CutColon(tag) ==
    IF \E i \in 1..Len(tag) : tag[i] = 58
    THEN LET i == CHOOSE k \in 1..Len(tag) : tag[k] = 58 /\ \A j \in 1..(k - 1) : tag[j] # 58
         IN  [before |-> SubSeq(tag, 1, i - 1), after |-> SubSeq(tag, i + 1, Len(tag))]
    ELSE [before |-> tag, after |-> <<>>]

getBlockForTag(tag) ==
    LET i == TagIndex(tag)
        cut == CutColon(tag)
    IN  IF i # 0
        THEN [block |-> IF blockTypes[i] = dictionaryBlock
                        THEN DictionaryBlock(cut.before, cut.after, <<>>)
                        ELSE IF blockTypes[i] = textBlock
                        THEN TextBlock(cut.before, cut.after, <<>>)
                        ELSE ArrayBlock(cut.before, cut.after, <<>>),
              err |-> nil]
        ELSE [block |-> NilBlock,
              err |-> <<[msg |-> <<"could not find block for tag '", tag, "'">>]>>]

\* block.SetContent(content).  content is the `any` handed over: its dynamic
\* type and its value.  Each variant takes the one type of its Content field
\* and refuses the others, leaving the block as it was.
SetContent(block, content) ==
    IF \/ block.kind = "DictionaryBlock" /\ content.type = "[]DictionaryElement"
       \/ block.kind = "TextBlock" /\ content.type = "string"
       \/ block.kind = "ArrayBlock" /\ content.type = "[]string"
    THEN [block |-> [block EXCEPT !.Content = content.val], err |-> nil]
    ELSE [block |-> block, err |-> <<[msg |-> <<"wrong type to set for dictionary">>]>>]

(***************************************************************************)
(* decode.go: decodeState.  d is [off, opcode, scan]; data is the buffer.  *)
(***************************************************************************)
readIndex(d) == d.off - 1

scanNext(data, d) ==
    IF d.off < Len(data)
    THEN Only({ [d EXCEPT !.opcode = r.op, !.scan = r.s, !.off = d.off + 1] :
                r \in {Step(d.scan, data[d.off + 1])} })
    ELSE Only({ [d EXCEPT !.opcode = r.op, !.scan = r.s, !.off = Len(data) + 1] :
                r \in {eof(d.scan)} })

RECURSIVE scanWhileFrom(_, _, _, _)
scanWhileFrom(data, d, op, i) ==
    IF i < Len(data)
    THEN Only({ IF r.op # op
                THEN [d EXCEPT !.opcode = r.op, !.scan = r.s, !.off = i + 1]
                ELSE Only({ scanWhileFrom(data, d1, op, i + 1) : d1 \in {[d EXCEPT !.scan = r.s]} }) :
                r \in {Step(d.scan, data[i + 1])} })
    ELSE Only({ [d EXCEPT !.opcode = r.op, !.scan = r.s, !.off = Len(data) + 1] :
                r \in {eof(d.scan)} })

scanWhile(data, d, op) == scanWhileFrom(data, d, op, d.off)

(***************************************************************************)
(* Read, unmarshal, value and block as a step machine.  st is the state of *)
(* one Read call: pc (the loop it stands in), d, start, block (the block   *)
(* being filled), dic (the content gathered so far), blocks and ret.       *)
(*   pc: "Read", "value", "waitBeginTag", "waitEndTag", "dict", "array",   *)
(*       "textWait", "text", "append", "done", "panic"                     *)
(***************************************************************************)
NoRet == [blocks |-> nil, err |-> nil]

StartState ==
    [pc |-> "Read", d |-> [off |-> 0, opcode |-> 0, scan |-> ZeroScanner], start |-> 0,
     block |-> NilBlock, dic |-> <<>>, blocks |-> nil, ret |-> NoRet]

Return(st, blocks, err) == [st EXCEPT !.pc = "done", !.ret = [blocks |-> blocks, err |-> err]]

ToPanic(st) == [st EXCEPT !.pc = "panic"]

\* Read: checkValid, then init and unmarshal's reset.
ReadStep(data, st) ==
    Only({ IF r.err # nil
           THEN Return([st EXCEPT !.d.scan = r.scan], nil, r.err)
           ELSE [st EXCEPT !.d = [off |-> 0, opcode |-> st.d.opcode, scan |-> reset(r.scan)],
                           !.pc = "value"] :
           r \in {checkValid(data, st.d.scan)} })

\* value: the head of its loop.
ValueStep(data, st) ==
    Only({ IF d1.opcode = scanEnd
           THEN Return([st EXCEPT !.d = d1], st.blocks, nil)
           ELSE [st EXCEPT !.d = d1, !.pc = "waitBeginTag"] :
           d1 \in {scanWhile(data, st.d, scanSkipSpace)} })

\* block returns (r.block, r.err) to value, which returns (nil, err) on an
\* error and appends the block otherwise.
BlockDone(st, r) ==
    IF r.err # nil THEN Return(st, nil, r.err)
    ELSE [st EXCEPT !.block = r.block, !.dic = <<>>, !.pc = "append"]

\* value: the tail of its loop, append and read one byte ahead.
AppendStep(data, st) ==
    [st EXCEPT !.blocks = Append(st.blocks, st.block), !.d = scanNext(data, st.d),
               !.pc = "value", !.block = NilBlock]

\* block: the loop that waits for the begin-tag opcode.
WaitBeginTagStep(data, st) ==
    IF st.d.opcode = scanBeginTag
    THEN [st EXCEPT !.start = readIndex(st.d), !.pc = "waitEndTag"]
    ELSE [st EXCEPT !.d = scanNext(data, st.d)]

\* block: the loop that waits for the end-tag opcode, then the tag lookup
\* and the switch on the opening opcode.
WaitEndTagStep(data, st) ==
    IF st.d.opcode # scanEndTag
    THEN [st EXCEPT !.d = scanNext(data, st.d)]
    ELSE IF ~SliceOK(data, st.start, readIndex(st.d)) THEN ToPanic(st)
    ELSE Only({
           IF g.err # nil THEN Return(st, nil, g.err)
           ELSE Only({
               IF d1.opcode = scanBeginDictionary
               THEN [st EXCEPT !.d = d1, !.block = g.block, !.dic = <<>>, !.pc = "dict"]
               ELSE IF d1.opcode = scanBeginArray
               THEN [st EXCEPT !.d = d1, !.block = g.block, !.dic = <<>>, !.pc = "array"]
               ELSE IF d1.opcode = scanBeginText
               THEN [st EXCEPT !.d = d1, !.block = g.block, !.pc = "textWait"]
               ELSE BlockDone([st EXCEPT !.d = d1], [block |-> NilBlock, err |-> nil]) :
               d1 \in {scanWhile(data, st.d, scanSkipSpace)} }) :
           g \in {getBlockForTag(Slice(data, st.start, readIndex(st.d)))} })

\* block, dictionary case: one turn of the pair loop.
DictStep(data, st) ==
    IF st.d.opcode = scanEndBlock
    THEN BlockDone(st, SetContent(st.block, [type |-> "[]DictionaryElement", val |-> st.dic]))
    ELSE Only({ Only({ Only({ Only({
           LET kstart == readIndex(d1)
               vstart == readIndex(d3)
           IN  IF ~SliceOK(data, kstart, readIndex(d2)) THEN ToPanic([st EXCEPT !.d = d2])
               ELSE IF d3.opcode # scanDictionaryKey /\ ~SliceOK(data, vstart, readIndex(d4))
               THEN ToPanic([st EXCEPT !.d = d4])
               ELSE LET key == Slice(data, kstart, readIndex(d2))
                        value == IF d3.opcode # scanDictionaryKey
                                 THEN Slice(data, vstart, readIndex(d4)) ELSE <<>>
                    IN  [st EXCEPT !.dic = Append(st.dic, DictionaryElement(key, value)),
                                   !.d = scanNext(data, d4)] :
           d4 \in {IF d3.opcode # scanDictionaryKey THEN scanWhile(data, d3, scanContinue) ELSE d3} }) :
           d3 \in {scanWhile(data, d2, scanSkipSpace)} }) :
           d2 \in {scanWhile(data, d1, scanContinue)} }) :
           d1 \in {scanWhile(data, st.d, scanSkipSpace)} })

\* block, array case: one turn of the value loop.
ArrayStep(data, st) ==
    IF st.d.opcode = scanEndArray
    THEN BlockDone(st, SetContent(st.block, [type |-> "[]string", val |-> st.dic]))
    ELSE Only({ Only({
           LET vstart == readIndex(d1)
           IN  IF ~SliceOK(data, vstart, readIndex(d2))
               THEN ToPanic([st EXCEPT !.d = d2, !.start = vstart])
               ELSE [st EXCEPT !.dic = Append(st.dic, Slice(data, vstart, readIndex(d2))),
                               !.start = vstart,
                               !.d = scanNext(data, d2)] :
           d2 \in {scanWhile(data, d1, scanContinue)} }) :
           d1 \in {scanWhile(data, st.d, scanSkipSpace)} })

\* block, text case: the loop that waits for the first text line.
TextWaitStep(data, st) ==
    IF st.d.opcode = scanEndBlock \/ st.d.opcode = scanTextLine
    THEN [st EXCEPT !.dic = <<>>, !.pc = "text"]
    ELSE [st EXCEPT !.d = scanNext(data, st.d)]

\* block, text case: one turn of the line loop; dic[:len(dic)-1] at its end.
TextStep(data, st) ==
    IF st.d.opcode = scanEndBlock
    THEN IF Len(st.dic) = 0 THEN ToPanic(st)
         ELSE BlockDone(st, SetContent(st.block, [type |-> "string",
                                                 val |-> SubSeq(st.dic, 1, Len(st.dic) - 1)]))
    ELSE Only({
           LET vstart == readIndex(st.d)
           IN  IF ~SliceOK(data, vstart, readIndex(d1))
               THEN ToPanic([st EXCEPT !.d = d1, !.start = vstart])
               ELSE [st EXCEPT !.dic = st.dic \o Slice(data, vstart, readIndex(d1)) \o <<10>>,
                               !.start = vstart,
                               !.d = scanNext(data, d1)] :
           d1 \in {scanWhile(data, st.d, scanContinue)} })

DecodeStep(data, st) ==
    CASE st.pc = "Read" -> ReadStep(data, st)
      [] st.pc = "value" -> ValueStep(data, st)
      [] st.pc = "waitBeginTag" -> WaitBeginTagStep(data, st)
      [] st.pc = "waitEndTag" -> WaitEndTagStep(data, st)
      [] st.pc = "dict" -> DictStep(data, st)
      [] st.pc = "array" -> ArrayStep(data, st)
      [] st.pc = "textWait" -> TextWaitStep(data, st)
      [] st.pc = "text" -> TextStep(data, st)
      [] st.pc = "append" -> AppendStep(data, st)
      [] OTHER -> st

\* A loop of block() that stands at the end of the input with an opcode that is
\* not the one it waits for: no later scanNext or scanWhile changes the opcode.
Spinning(data, st) ==
    /\ st.d.off > Len(data)
    /\ \/ st.pc = "waitBeginTag" /\ st.d.opcode # scanBeginTag
       \/ st.pc = "waitEndTag" /\ st.d.opcode # scanEndTag
       \/ st.pc = "dict" /\ st.d.opcode # scanEndBlock
       \/ st.pc = "array" /\ st.d.opcode # scanEndArray
       \/ st.pc = "textWait" /\ st.d.opcode \notin {scanEndBlock, scanTextLine}
       \/ st.pc = "text" /\ st.d.opcode # scanEndBlock

\* Read run to its end: the final state, or the first spinning state.
RECURSIVE RunFrom(_, _)
RunFrom(data, st) ==
    IF st.pc \in {"done", "panic"} \/ Spinning(data, st) THEN st
    ELSE Only({ RunFrom(data, st1) : st1 \in {DecodeStep(data, st)} })

Read(data) == RunFrom(data, StartState)

(***************************************************************************)
(* The encoder: Encoder and Write.                                         *)
(* b is [indent, lineSep, addTrailingLineEnd].                             *)
(***************************************************************************)
DefaultEncoder == [indent |-> 0, lineSep |-> <<>>, addTrailingLineEnd |-> FALSE]

GetIndent(b) == IF b.indent # 0 THEN b.indent ELSE 2

GetEndOffset(b) == IF ~b.addTrailingLineEnd THEN 0 ELSE 1

GetLineSep(b) == b.lineSep

\* strings.Repeat(" ", n)
Spaces(n) == [i \in 1..n |-> 32]

\* The lines of a dictionary block from pair i on.
RECURSIVE DictLines(_, _, _)
DictLines(content, b, i) ==
    IF i > Len(content) THEN <<>>
    ELSE Spaces(GetIndent(b)) \o content[i].Key \o <<58, 32>> \o content[i].Value
         \o (IF i = Len(content) THEN <<>> ELSE GetLineSep(b)) \o <<10>>
         \o DictLines(content, b, i + 1)

\* The lines of an array block from value i on.
RECURSIVE ArrayLines(_, _, _)
ArrayLines(content, b, i) ==
    IF i > Len(content) THEN <<>>
    ELSE Spaces(GetIndent(b)) \o content[i]
         \o (IF i = Len(content) THEN <<>> ELSE GetLineSep(b)) \o <<10>>
         \o ArrayLines(content, b, i + 1)

\* What marshal writes for one block.
marshalBlock(blk, b) ==
    blk.Name \o (IF blk.Type # <<>> THEN <<58>> \o blk.Type ELSE <<>>)
    \o (IF blk.kind = "DictionaryBlock"
        THEN <<32, 123, 10>> \o DictLines(blk.Content, b, 1) \o <<125, 10, 10>>
        ELSE IF blk.kind = "TextBlock"
        THEN <<32, 123, 10>> \o blk.Content \o <<10>> \o <<125, 10, 10>>
        ELSE <<32, 91, 10>> \o ArrayLines(blk.Content, b, 1) \o <<93, 10, 10>>)

RECURSIVE marshal(_, _)
marshal(blks, b) ==
    IF blks = <<>> THEN <<>> ELSE marshalBlock(Head(blks), b) \o marshal(Tail(blks), b)

\* Encoder.Write: [out, err, panic]; a nil block in data is a nil dereference.
\* An Encoder.Write that returns what marshal wrote, the blank line after
\* the last block included.
WriteUntrimmed(blks, b) ==
    IF \E i \in 1..Len(blks) : blks[i] = NilBlock
    THEN [out |-> <<>>, err |-> nil, panic |-> TRUE]
    ELSE [out |-> marshal(blks, b), err |-> nil, panic |-> FALSE]

Write(blks, b) ==
    IF \E i \in 1..Len(blks) : blks[i] = NilBlock
    THEN [out |-> <<>>, err |-> nil, panic |-> TRUE]
    ELSE LET toWrite == marshal(blks, b)
             n == Len(toWrite)
         IN  [out |-> IF n > 2 /\ toWrite[n] = 10 /\ toWrite[n - 1] = 10
                      THEN SubSeq(toWrite, 1, n - 2 + GetEndOffset(b))
                      ELSE toWrite,
              err |-> nil, panic |-> FALSE]

(***************************************************************************)
(* The inputs.  A buffer is put together from pieces of Bru text.          *)
(***************************************************************************)
MaxLines == 2
MaxBlocks == 2
MaxFree == 3
MaxSpin == 2

\* All sequences over S of length at most n.
RECURSIVE SeqsUpTo(_, _)
SeqsUpTo(S, n) ==
    IF n = 0 THEN {<<>>}
    ELSE LET shorter == SeqsUpTo(S, n - 1)
         IN  shorter \cup {Append(q, x) : q \in {r \in shorter : Len(r) = n - 1}, x \in S}

Headers ==
    { B(<<"m","e","t","a"," ","{","\n">>),
      B(<<"t","e","s","t","s"," ","{","\n">>),
      B(<<"v","a","r","s",":","s","e","c","r","e","t"," ","[","\n">>),
      B(<<"f","o","o"," ","{","\n">>) }

\* Dictionary lines as the encoder lays them out: two spaces, key, ": ", value.
CanonLines ==
    { B(<<" "," ","k",":"," ","v","\n">>),
      B(<<" "," ","k",":"," ","\n">>) }

Lines ==
    CanonLines \cup
    { B(<<"k","2",":"," ","v","\n">>),
      B(<<" "," ","k",":","\n">>),
      B(<<" "," ","k","\n">>),
      B(<<" "," ","k",",","\n">>),
      B(<<",","k","\n">>) }

Closers == { B(<<"}">>), B(<<"]">>), <<>> }

Trailers == { <<>>, B(<<"\n">>) }

\* One block: a header, some lines, a closer, a trailer.
OneBlockInputs ==
    { h \o Flatten(ls) \o c \o t :
        h \in Headers, ls \in SeqsUpTo(Lines, MaxLines), c \in Closers, t \in Trailers }

\* Whole blocks, each with the block its text spells.
BlockDocs ==
    { [text |-> B(<<"g","e","t"," ","{","\n"," "," ","k",":"," ","v","\n","}">>),
       block |-> DictionaryBlock(B(<<"g","e","t">>), <<>>, <<DictionaryElement(B(<<"k">>), B(<<"v">>))>>)],
      [text |-> B(<<"g","e","t"," ","{","\n"," "," ","k",":"," ","v","\n"," "," ","j",":"," ","w","\n","}">>),
       block |-> DictionaryBlock(B(<<"g","e","t">>), <<>>, <<DictionaryElement(B(<<"k">>), B(<<"v">>)),
                                                  DictionaryElement(B(<<"j">>), B(<<"w">>))>>)],
      [text |-> B(<<"b","o","d","y"," ","{","\n"," "," ","a","\n","b","\n","}">>),
       block |-> TextBlock(B(<<"b","o","d","y">>), <<>>, B(<<" "," ","a","\n","b">>))],
      [text |-> B(<<"t","e","s","t","s"," ","{","\n","x","\n","}">>),
       block |-> TextBlock(B(<<"t","e","s","t","s">>), <<>>, B(<<"x">>))],
      [text |-> B(<<"v","a","r","s",":","s","e","c","r","e","t"," ","[","\n"," "," ","k","\n","]">>),
       block |-> ArrayBlock(B(<<"v","a","r","s">>), B(<<"s","e","c","r","e","t">>), <<B(<<"k">>)>>)],
      [text |-> B(<<"g","e","t"," ","{","\n","}">>),
       block |-> DictionaryBlock(B(<<"g","e","t">>), <<>>, <<>>)] }

BlockTexts == { b.text : b \in BlockDocs }

WhiteSeparators == { B(<<"\n","\n">>), B(<<"\n">>) }

Separators == WhiteSeparators \cup { <<>>, B(<<"\n","X","\n">>) }

\* Several whole blocks, a separator after each but the last.
RECURSIVE Joined(_, _)
Joined(bs, seps) ==
    IF Len(bs) = 0 THEN <<>>
    ELSE IF Len(bs) = 1 THEN bs[1]
    ELSE bs[1] \o seps[1] \o Joined(Tail(bs), Tail(seps))

ManyBlockInputs ==
    { Joined(bs, seps) \o t :
        bs \in {q \in SeqsUpTo(BlockTexts, MaxBlocks) : Len(q) >= 2},
        seps \in {q \in SeqsUpTo(Separators, MaxBlocks - 1) : Len(q) = MaxBlocks - 1},
        t \in Trailers }

FreeBytes == { OrdTable[ch] : ch \in {"k", ":", " ", "\n", "}", "]", ",", "\\", "n", "u", "0", "{"} }

FreeHeaders ==
    { B(<<"g","e","t"," ","{","\n">>),
      B(<<"t","e","s","t","s"," ","{","\n">>),
      B(<<"v","a","r","s",":","s","e","c","r","e","t"," ","[","\n">>) }

\* An opened block followed by any few bytes.
FreeInputs == { h \o f : h \in FreeHeaders, f \in SeqsUpTo(FreeBytes, MaxFree) }

\* Every prefix of a few whole buffers: the input ends in any scanner state.
PrefixesOf(t) == { SubSeq(t, 1, n) : n \in 0..Len(t) }

PrefixInputs ==
    UNION { PrefixesOf(t \o sep \o B(<<"p","u","t"," ","{">>)) :
              t \in BlockTexts, sep \in {B(<<"\n","\n">>), B(<<"\n","X","\n">>)} }

\* The array of TestVarsWithType, with and without the newline that ends it.
VarsSecretInputs ==
    { B(<<"v","a","r","s",":","s","e","c","r","e","t"," ","[","\n"," "," ","a","c","c","e","s","s","_","k","e","y",",","\n"," "," ","a","c","c","e","s","s","_","s","e","c","r","e","t",",","\n"," "," ","~","t","r","a","n","s","a","c","t","i","o","n","I","d","\n","]">>) \o t : t \in Trailers }

\* The buffers of the repository's checkValid tests: TestMetaEmpty,
\* TestMetaSingle, TestMetaWrong, TestMetaWrong2, TestMetaEmptyValue.
TestMetaEmptyInput == B(<<"m","e","t","a"," ","{","\n","}","\n">>)

TestMetaSingleInput == B(<<"m","e","t","a"," ","{","\n","u","r","l",":"," ","h","t","t","p","s",":","/","/","t","o","t","o",".","c","o","m","\n","}","\n">>)

TestMetaWrongInput == B(<<"m","e","t","a"," ","{","\n","\t","d","z","q","d","q","z","d","q","z","d","q","z","\n","}","\n">>)

TestMetaWrong2Input == B(<<"m","e","t","a"," ","{","\n","\t","d","z","q","d","q","z","d","q","z","d","q","z",":"," ","z","d","i","q","h","i","d","h",",","\n","q","d","z","i","d","i","h","q","h","d","z","q","i","\n","}","\n">>)

TestMetaEmptyValueInput == B(<<"m","e","t","a"," ","{","\n","\t","d","z","q","d","q","z","d","q","z","d","q","z",":"," ","\n","}","\n">>)

TestInputs ==
    { TestMetaEmptyInput, TestMetaSingleInput, TestMetaWrongInput, TestMetaWrong2Input,
      TestMetaEmptyValueInput }

\* Every tag of the table in front of a one-line body, in braces and in brackets.
TagInputs ==
    { tags[i] \o body : i \in 1..Len(tags),
                        body \in { B(<<" ","{","\n"," "," ","k",":"," ","v","\n","}">>),
                                   B(<<" ","[","\n"," "," ","k","\n","]">>) } }

\* Buffers with an opening brace, bracket or tagged header inside the body of
\* an open block, each with the context of the error checkValid answers with
\* ("" when it answers with none).
NestedDocs ==
    { [text |-> B(<<"m","e","t","a"," ","{","\n"," "," ","k",":"," ","{","\n","}">>),
       context |-> ""],
      [text |-> B(<<"m","e","t","a"," ","{","\n"," "," ","k",":"," ","g","e","t"," ","{","\n","}">>),
       context |-> ""],
      [text |-> B(<<"m","e","t","a"," ","{","\n"," "," ","g","e","t"," ","{","\n","}">>),
       context |-> "in key"],
      [text |-> B(<<"m","e","t","a"," ","{","\n"," "," ","g","e","t"," ","{","\n"," "," ","k",":"," ","v","\n"," "," ","}","\n","}">>),
       context |-> "in key"],
      [text |-> B(<<"t","e","s","t","s"," ","{","\n"," "," ","g","e","t"," ","{","\n"," "," ","k",":"," ","v","\n"," "," ","}","\n","}">>),
       context |-> ""],
      [text |-> B(<<"t","e","s","t","s"," ","{","\n","g","e","t"," ","{","\n","}","\n","}">>),
       context |-> ""],
      [text |-> B(<<"v","a","r","s",":","s","e","c","r","e","t"," ","[","\n"," "," ","g","e","t"," ","{","\n","]">>),
       context |-> ""],
      [text |-> B(<<"v","a","r","s",":","s","e","c","r","e","t"," ","[","\n"," "," ","g","e","t"," ","{","\n"," "," ","}","\n","]">>),
       context |-> "after array element"],
      [text |-> B(<<"v","a","r","s",":","s","e","c","r","e","t"," ","[","\n"," "," ","k",",","\n"," "," ","g","e","t"," ","[","\n","]">>),
       context |-> "after array element"] }

NestedInputs == { doc.text : doc \in NestedDocs }

\* Blocks with a backslash escape in a dictionary value, in a dictionary key
\* and in an array value, with the blocks they spell: the escape kept as
\* written.
EscapeDocs ==
    { [text |-> B(<<"m","e","t","a"," ","{","\n"," "," ","k",":"," ","a","\\","n","b","\n","}">>),
       blocks |-> <<DictionaryBlock(B(<<"m","e","t","a">>), <<>>, <<DictionaryElement(B(<<"k">>), B(<<"a","\\","n","b">>))>>)>>],
      [text |-> B(<<"m","e","t","a"," ","{","\n"," "," ","k",":"," ","\\","\"","v","\\","\"","\n","}">>),
       blocks |-> <<DictionaryBlock(B(<<"m","e","t","a">>), <<>>, <<DictionaryElement(B(<<"k">>), B(<<"\\","\"","v","\\","\"">>))>>)>>],
      [text |-> B(<<"m","e","t","a"," ","{","\n"," "," ","k",":"," ","\\","u","0","0","e","9","\n","}">>),
       blocks |-> <<DictionaryBlock(B(<<"m","e","t","a">>), <<>>, <<DictionaryElement(B(<<"k">>), B(<<"\\","u","0","0","e","9">>))>>)>>],
      [text |-> B(<<"m","e","t","a"," ","{","\n"," "," ","a","\\","n","b",":"," ","v","\n","}">>),
       blocks |-> <<DictionaryBlock(B(<<"m","e","t","a">>), <<>>, <<DictionaryElement(B(<<"a","\\","n","b">>), B(<<"v">>))>>)>>],
      [text |-> B(<<"m","e","t","a"," ","{","\n"," "," ","\\","u","0","0","e","9",":"," ","v","\n","}">>),
       blocks |-> <<DictionaryBlock(B(<<"m","e","t","a">>), <<>>, <<DictionaryElement(B(<<"\\","u","0","0","e","9">>), B(<<"v">>))>>)>>],
      [text |-> B(<<"v","a","r","s",":","s","e","c","r","e","t"," ","[","\n"," "," ","a","\\","t","b","\n","]">>),
       blocks |-> <<ArrayBlock(B(<<"v","a","r","s">>), B(<<"s","e","c","r","e","t">>), <<B(<<"a","\\","t","b">>)>>)>>] }

\* Blocks with a backslash in front of a byte that is no escape, a \u cut
\* short, and a backslash at the end of the line.
BadEscapeInputs ==
    { B(<<"m","e","t","a"," ","{","\n"," "," ","k",":"," ","a","\\","q","b","\n","}">>),
      B(<<"m","e","t","a"," ","{","\n"," "," ","k",":"," ","\\","u","0","0","g","9","\n","}">>),
      B(<<"m","e","t","a"," ","{","\n"," "," ","k",":"," ","\\","u","0","0","\n","}">>),
      B(<<"m","e","t","a"," ","{","\n"," "," ","a","\\","q","b",":"," ","v","\n","}">>),
      B(<<"v","a","r","s",":","s","e","c","r","e","t"," ","[","\n"," "," ","a","\\"," ","b","\n","]">>),
      B(<<"m","e","t","a"," ","{","\n"," "," ","k",":"," ","a","\\","\n","}">>) }

\* A dictionary line that ends in an escape with no ':' before its newline,
\* the colon and a value on the line after it.
EscapedKeyNoColonInput == B(<<"m","e","t","a"," ","{","\n"," "," ","k","\\","n","\n"," "," ",":"," ","v","\n","}">>)

EscapeInputs == { doc.text : doc \in EscapeDocs } \cup BadEscapeInputs \cup {EscapedKeyNoColonInput}

\* An array closed with an empty body, after a value, and after a ','.
ArrayCloseInputs ==
    { B(<<"v","a","r","s",":","s","e","c","r","e","t"," ","[","\n","]">>),
      B(<<"v","a","r","s",":","s","e","c","r","e","t"," ","[","\n"," "," ","k","\n","]">>),
      B(<<"v","a","r","s",":","s","e","c","r","e","t"," ","[","\n"," "," ","k","\n",",","]">>),
      B(<<"v","a","r","s",":","s","e","c","r","e","t"," ","[","\n"," "," ","k","\n",",","\n","]">>) }

\* Buffers with no block in them: nothing at all, or white space only.
EmptyFileInputs ==
    { <<>>, B(<<"\n">>), B(<<" ">>), B(<<"\n","\n">>), B(<<" ","\t","\r","\n">>) }

\* White space between the tag and the opening punctuation, and the opening
\* punctuation of another kind of block.
OpenerInputs ==
    { B(<<"g","e","t"," "," ","{","\n"," "," ","k",":"," ","v","\n","}">>),
      B(<<"v","a","r","s",":","s","e","c","r","e","t"," ","\n","[","\n"," "," ","k","\n","]">>),
      B(<<"t","e","s","t","s","\t"," ","{","\n","x","\n","}">>),
      B(<<"g","e","t"," ","[","\n","]">>),
      B(<<"v","a","r","s",":","s","e","c","r","e","t"," ","{","\n","}">>),
      B(<<"t","e","s","t","s"," ","[","\n","]">>) }

\* A tag that is not in the tag table.
UnknownTag == B(<<"f","o","o">>)

\* Well-formed dictionary blocks under that tag: the tag, no white space or
\* some before the opening brace, and a body that is empty or holds pairs.
UnknownTagInputs ==
    { UnknownTag \o ws \o B(<<"{","\n">>) \o Flatten(ls) \o B(<<"}">>) \o t :
        ws \in {<<>>, B(<<" ">>), B(<<"\t">>), B(<<"\n">>), B(<<"\r","\n">>), B(<<" "," ">>)},
        ls \in SeqsUpTo(CanonLines, MaxLines), t \in Trailers }
    \cup { UnknownTag \o ws \o B(<<"{","}">>) \o t : ws \in {<<>>, B(<<" ">>)}, t \in Trailers }

MetaHeader == B(<<"m","e","t","a"," ","{","\n">>)

\* Dictionary lines that carry a key and no value, each with the pair C12
\* gives it: `key:` and the newline, indented or not, and a key with no
\* colon at all.
ValuelessLines ==
    { [text |-> B(<<" "," ","k",":","\n">>), pair |-> DictionaryElement(B(<<"k">>), <<>>)],
      [text |-> B(<<"k","2",":","\n">>), pair |-> DictionaryElement(B(<<"k","2">>), <<>>)],
      [text |-> B(<<" "," ","k","\n">>), pair |-> DictionaryElement(B(<<"k">>), <<>>)] }

\* Dictionary blocks of such lines, each with the block C12 gives it.
ValuelessDocs ==
    { [text |-> MetaHeader \o Flatten([i \in 1..Len(ls) |-> ls[i].text]) \o B(<<"}">>) \o t,
       blocks |-> <<DictionaryBlock(B(<<"m","e","t","a">>), <<>>, [i \in 1..Len(ls) |-> ls[i].pair])>>] :
        ls \in SeqsUpTo(ValuelessLines, MaxLines) \ {<<>>}, t \in Trailers }

\* The families of buffers given to Read.
InputFamilies ==
    { OneBlockInputs, ManyBlockInputs, FreeInputs, PrefixInputs, VarsSecretInputs,
      TestInputs, TagInputs, NestedInputs, EscapeInputs, ArrayCloseInputs, EmptyFileInputs,
      OpenerInputs, UnknownTagInputs, {doc.text : doc \in ValuelessDocs} }

Encoders ==
    [indent : {0, 1}, lineSep : {<<>>, <<44>>}, addTrailingLineEnd : BOOLEAN]

(***************************************************************************)
(* The state machine: Read(data), then Encoder.Write of what it returned,  *)
(* then Read of what Write wrote.                                          *)
(***************************************************************************)
VARIABLES
    data,    \* the buffer given to Read
    pc,      \* where the Read call stands, then its caller ("set": SetContent
             \* has returned; "written", "rewritten": Write has returned)
    d,       \* decodeState: off, opcode, scan
    start,   \* block(): start
    block,   \* block(): the block got from getBlockForTag
    dic,     \* block(): the content gathered so far
    blocks,  \* value(): blocks
    ret,     \* what Read returned: blocks and err
    enc,     \* the Encoder handed to Write
    out,     \* what Write returned
    round,   \* 1: Read of the input, 2: Read of what Write wrote
    first,   \* the buffer and the result of round 1
    heap,    \* the scanners allocated by scannerPool.New, by address
    pool,    \* scannerPool: the addresses of the scanners put back
    calls    \* the Valid call of each goroutine

vars == <<data, pc, d, start, block, dic, blocks, ret, enc, out, round, first, heap, pool, calls>>

Cur == [pc |-> pc, d |-> d, start |-> start, block |-> block, dic |-> dic,
        blocks |-> blocks, ret |-> ret]

Becomes(st) ==
    /\ pc' = st.pc
    /\ d' = st.d
    /\ start' = st.start
    /\ block' = st.block
    /\ dic' = st.dic
    /\ blocks' = st.blocks
    /\ ret' = st.ret

NoOut == [out |-> <<>>, err |-> nil, panic |-> FALSE]

\* scannerPool before any Valid call.
NoPool == heap = <<>> /\ pool = {} /\ calls = <<>>

Init ==
    /\ \E family \in InputFamilies : data \in family
    /\ pc = StartState.pc
    /\ d = StartState.d
    /\ start = StartState.start
    /\ block = StartState.block
    /\ dic = StartState.dic
    /\ blocks = StartState.blocks
    /\ ret = StartState.ret
    /\ enc = DefaultEncoder
    /\ out = NoOut
    /\ round = 1
    /\ first = [data |-> <<>>, blocks |-> <<>>]
    /\ NoPool

\* Read and Write take no scanner from scannerPool.
PoolRest == UNCHANGED <<heap, pool, calls>>

Rest == UNCHANGED <<data, enc, out, round, first>> /\ PoolRest

\* The content gathered by a loop of block() is kept within the model's bound.
Bounded == Len(dic) < Len(data) + MaxSpin

ReadCall == pc = "Read" /\ (\E st \in {ReadStep(data, Cur)} : Becomes(st)) /\ Rest

ValueLoop == pc = "value" /\ (\E st \in {ValueStep(data, Cur)} : Becomes(st)) /\ Rest

WaitBeginTag == pc = "waitBeginTag" /\ (\E st \in {WaitBeginTagStep(data, Cur)} : Becomes(st)) /\ Rest

WaitEndTag == pc = "waitEndTag" /\ (\E st \in {WaitEndTagStep(data, Cur)} : Becomes(st)) /\ Rest

DictLoop == pc = "dict" /\ Bounded /\ (\E st \in {DictStep(data, Cur)} : Becomes(st)) /\ Rest

ArrayLoop == pc = "array" /\ Bounded /\ (\E st \in {ArrayStep(data, Cur)} : Becomes(st)) /\ Rest

TextWait == pc = "textWait" /\ (\E st \in {TextWaitStep(data, Cur)} : Becomes(st)) /\ Rest

TextLoop == pc = "text" /\ Bounded /\ (\E st \in {TextStep(data, Cur)} : Becomes(st)) /\ Rest

AppendBlock == pc = "append" /\ (\E st \in {AppendStep(data, Cur)} : Becomes(st)) /\ Rest

\* The caller changes a block Read returned: blocks[i].SetContent(content)
\* with a value of one of the three content types.  ret becomes the blocks as
\* the call leaves them and the error it returned; a nil block makes the
\* call panic.
SetContentCall ==
    /\ pc = "done" /\ round = 1 /\ ret.err = nil
    /\ \E i \in 1..Len(ret.blocks) :
         \E content \in { [type |-> "[]DictionaryElement",
                           val |-> <<DictionaryElement(B(<<"k">>), B(<<"v">>))>>],
                          [type |-> "string", val |-> B(<<"y">>)],
                          [type |-> "[]string", val |-> <<B(<<"j">>)>>] } :
            IF ret.blocks[i] = NilBlock
            THEN pc' = "panic" /\ ret' = ret
            ELSE /\ pc' = "set"
                 /\ \E r \in {SetContent(ret.blocks[i], content)} :
                      ret' = [blocks |-> [ret.blocks EXCEPT ![i] = r.block], err |-> r.err]
    /\ UNCHANGED <<data, d, start, block, dic, blocks, enc, out, round, first>>
    /\ PoolRest

\* Encoder.Write on the blocks Read returned, or on the blocks as a
\* SetContent call that returned nil left them, with any of the encoders.
WriteCall ==
    /\ pc \in {"done", "set"} /\ round = 1 /\ ret.err = nil
    /\ \E b \in Encoders :
        /\ enc' = b
        /\ out' = Write(ret.blocks, b)
    /\ pc' = IF pc = "done" THEN "written" ELSE "rewritten"
    /\ UNCHANGED <<data, d, start, block, dic, blocks, ret, round, first>>
    /\ PoolRest

\* Read on the bytes Write returned.
ReadAgain ==
    /\ pc = "written" /\ round = 1 /\ ~out.panic
    /\ first' = [data |-> data, blocks |-> ret.blocks]
    /\ data' = out.out
    /\ round' = 2
    /\ Becomes(StartState)
    /\ UNCHANGED <<enc, out>>
    /\ PoolRest

Next ==
    \/ ReadCall
    \/ ValueLoop
    \/ WaitBeginTag
    \/ WaitEndTag
    \/ DictLoop
    \/ ArrayLoop
    \/ TextWait
    \/ TextLoop
    \/ AppendBlock
    \/ SetContentCall
    \/ WriteCall
    \/ ReadAgain

Spec == Init /\ [][Next]_vars

\* Read runs on: the scheduler does not stop a running call.
FairSpec == Spec /\ WF_vars(Next)

Stuck == Spinning(data, Cur)

(***************************************************************************)
(* Families of inputs whose layout is known, for the properties below.     *)
(***************************************************************************)
EndsInNewline(bs) == Len(bs) > 0 /\ bs[Len(bs)] = 10

\* Default indent and separator, the trailing newline kept when bs has one.
MatchingEncoder(bs) ==
    [indent |-> 0, lineSep |-> <<>>, addTrailingLineEnd |-> EndsInNewline(bs)]

\* Buffers in the layout Encoder.Write produces with the default indent and
\* separator: header line, two-space body lines, the closer on its own line,
\* one empty line between blocks, at most one newline at the end.
CanonInputs ==
    { B(<<"m","e","t","a"," ","{","\n">>) \o Flatten(ls) \o B(<<"}">>) \o t :
        ls \in SeqsUpTo(CanonLines, MaxLines), t \in Trailers }
    \cup
    { Joined(bs, [i \in 1..(Len(bs) - 1) |-> B(<<"\n","\n">>)]) \o t :
        bs \in SeqsUpTo(BlockTexts, MaxBlocks) \ {<<>>}, t \in Trailers }

\* `key: value` lines, indented or not, each with the pair it spells.
PairLines ==
    { [text |-> B(<<" "," ","k",":"," ","v","\n">>), pair |-> DictionaryElement(B(<<"k">>), B(<<"v">>))],
      [text |-> B(<<"k","2",":"," ","v","\n">>), pair |-> DictionaryElement(B(<<"k","2">>), B(<<"v">>))] }

\* A dictionary block of one or more such lines, with the block it spells.
DictDocs ==
    { [text |-> B(<<"m","e","t","a"," ","{","\n">>) \o Flatten([i \in 1..Len(ls) |-> ls[i].text]) \o B(<<"}">>) \o t,
       blocks |-> <<DictionaryBlock(B(<<"m","e","t","a">>), <<>>, [i \in 1..Len(ls) |-> ls[i].pair])>>] :
        ls \in SeqsUpTo(PairLines, MaxLines) \ {<<>>}, t \in Trailers }

\* Two or more whole blocks separated by whitespace, with the blocks they spell.
ManyDocs ==
    { [text |-> Joined([i \in 1..Len(bs) |-> bs[i].text], seps) \o t,
       blocks |-> [i \in 1..Len(bs) |-> bs[i].block]] :
        bs \in {q \in SeqsUpTo(BlockDocs, MaxBlocks) : Len(q) >= 2},
        seps \in {q \in SeqsUpTo(WhiteSeparators, MaxBlocks - 1) : Len(q) = MaxBlocks - 1},
        t \in Trailers }

\* Two whole blocks, each with a body, and a stray byte on a line between them.
StrayByteInputs ==
    { b1.text \o B(<<"\n","X","\n">>) \o b2.text \o t :
        b1 \in {b \in BlockDocs : b.block.Content # <<>>},
        b2 \in {b \in BlockDocs : b.block.Content # <<>>},
        t \in Trailers }

\* The scanner after checkValid's loop over bs.
AfterBytes(bs) == checkValidLoop(bs, reset(ZeroScanner), 1)

\* Every byte of bs was taken and eof does not reach the end-of-scan state.
InputEndsOpen(bs) ==
    \E l \in {AfterBytes(bs)} : l.err = nil /\ eof(l.scan).op = scanError

\* The state the input ends in refuses the synthetic space itself.
SpaceRefused(bs) ==
    \E l \in {AfterBytes(bs)} : l.err = nil /\ Step(l.scan, 32).op = scanError

(***************************************************************************)
(* C1                                                                      *)
(***************************************************************************)
\* C1, on the buffers whose layout is the one Write produces: for every such
\* buffer that Read accepts, Write of the blocks Read returned, with the
\* default indent and separator and the trailing newline matching the
\* buffer, returns exactly the bytes of the buffer.
C1_ByteExactRoundTrip ==
    (pc = "written" /\ enc = MatchingEncoder(data) /\ data \in CanonInputs)
        => (~out.panic /\ out.err = nil /\ out.out = data)

(***************************************************************************)
(* C2                                                                      *)
(***************************************************************************)
\* C2: for every block sequence a successful Read returned and every Encoder
\* configuration, Read of what Write wrote succeeds and returns the same
\* blocks: same variants, Name, Type and Content, in the same order.
C2_ReadOfWriteIsSame ==
    round = 2 =>
        /\ pc # "panic"
        /\ ~Stuck
        /\ pc = "done" => ret = [blocks |-> first.blocks, err |-> nil]

(***************************************************************************)
(* C3                                                                      *)
(***************************************************************************)
\* C3: checkValid returns nil exactly when Read returns blocks without an
\* error; a buffer the validation accepts is decoded to the end.
C3_ValidIffReadSucceeds ==
    /\ pc = "done" => (Valid(data) <=> ret.err = nil)
    /\ Valid(data) => (pc # "panic" /\ ~Stuck)

(***************************************************************************)
(* C4                                                                      *)
(***************************************************************************)
\* C4: Read terminates; no loop of value() or block() keeps iterating once
\* the end of the input has been reached.
C4_NoLoopPastEndOfInput == ~Stuck

(***************************************************************************)
(* C5                                                                      *)
(***************************************************************************)
\* C5: an error Read returns comes with a nil block sequence, and a defect
\* anywhere in the buffer, also after well-formed blocks (here: a buffer
\* checkValid refuses, or a stray byte between two whole blocks), makes Read
\* return an error and no block list.
C5_DefectYieldsErrorAndNoBlocks ==
    pc = "done" =>
        /\ ret.err # nil => ret.blocks = nil
        /\ (round = 1 /\ (~Valid(data) \/ data \in StrayByteInputs))
              => (ret.err # nil /\ ret.blocks = nil)

(***************************************************************************)
(* C6                                                                      *)
(***************************************************************************)
\* C6: a well-formed dictionary block with one `key: value` pair per line is
\* read as one DictionaryBlock with one pair per line, in order, duplicate
\* keys kept; Key is the bytes before the ':' and Value the bytes after it.
C6_OnePairPerLine ==
    \A doc \in DictDocs :
        (data = doc.text /\ round = 1) =>
            /\ pc # "panic"
            /\ ~Stuck
            /\ pc = "done" => ret = [blocks |-> doc.blocks, err |-> nil]

(***************************************************************************)
(* C7                                                                      *)
(***************************************************************************)
\* C7: the array with one comma-terminated entry per line is accepted by
\* checkValid and read as one ArrayBlock vars:secret whose Content is the
\* entries in order without the commas.
C7_CommaSeparatedArray ==
    (data \in VarsSecretInputs /\ round = 1) =>
        /\ Valid(data)
        /\ pc = "done" =>
             ret = [blocks |-> <<ArrayBlock(B(<<"v","a","r","s">>), B(<<"s","e","c","r","e","t">>),
                                            << B(<<"a","c","c","e","s","s","_","k","e","y">>),
                                               B(<<"a","c","c","e","s","s","_","s","e","c","r","e","t">>),
                                               B(<<"~","t","r","a","n","s","a","c","t","i","o","n","I","d">>) >>)>>,
                    err |-> nil]

(***************************************************************************)
(* C8                                                                      *)
(***************************************************************************)
\* C8: a buffer of several well-formed blocks separated by whitespace is read
\* as exactly one block per source block, in source order.
C8_OneBlockPerSourceBlock ==
    \A doc \in ManyDocs :
        (data = doc.text /\ round = 1) =>
            /\ pc # "panic"
            /\ ~Stuck
            /\ pc = "done" => ret = [blocks |-> doc.blocks, err |-> nil]

(***************************************************************************)
(* C9                                                                      *)
(***************************************************************************)
\* C9, as the spec states it: when the input is exhausted and the synthetic
\* space does not bring the scan to its end, checkValid and Read fail with
\* "unexpected end of Bru input" at Offset = length of the input.
C9_AlwaysUnexpectedEnd ==
    (pc = "done" /\ InputEndsOpen(data)) =>
        /\ ret.err # nil
        /\ ErrorText(ret.err[1]) = Text("unexpected end of Bru input")
        /\ ret.err[1].Offset = Len(data)

\* C9, amended: in that case checkValid and Read fail with a SyntaxError whose
\* Offset is the length of the input; its message is "unexpected end of Bru
\* input" unless the state the input ends in refuses the synthetic space (a
\* tag outside the table, an unfinished escape), and then it is that state's
\* "invalid character ' ' ..." message.
C9_EofErrorAtLength ==
    (pc = "done" /\ InputEndsOpen(data)) =>
        /\ ret.blocks = nil
        /\ ret.err # nil
        /\ ret.err = checkValid(data, ZeroScanner).err
        /\ ret.err[1].Offset = Len(data)
        /\ IF SpaceRefused(data)
           THEN /\ Len(ret.err[1].msg) >= 4
                /\ ret.err[1].msg[1] = "invalid character "
                /\ ret.err[1].msg[2] = 32
                /\ ret.err[1].msg[4] \in {"invalid tag name: ", "in string escape code",
                                          "in \\u hexadecimal character escape"}
           ELSE ErrorText(ret.err[1]) = Text("unexpected end of Bru input")

\* Read failed at the end of a buffer whose dictionary body is still open:
\* "unexpected end of Bru input" at Offset = length.
C9_Witness ==
    /\ pc = "done" /\ InputEndsOpen(data) /\ ~SpaceRefused(data)
    /\ Len(data) > 0
    /\ d.scan.parseState = <<parseDictionaryKey>>
    /\ ret.err # nil
    /\ ErrorText(ret.err[1]) = Text("unexpected end of Bru input")
    /\ ret.err[1].Offset = Len(data)

(***************************************************************************)
(* C10                                                                     *)
(***************************************************************************)
\* C10, as the spec states it: Read on a well-formed block whose tag is not
\* in the tag table fails with getBlockForTag's "could not find block for
\* tag" error.
C10_CouldNotFindBlock ==
    (pc = "done" /\ round = 1 /\ data \in UnknownTagInputs) =>
        ret = [blocks |-> nil, err |-> getBlockForTag(UnknownTag).err]

\* C10, amended: Read on such a block fails with the SyntaxError checkTag
\* raises in the validation pass, "invalid character <c> invalid tag name:
\* <t>": <c> is the first white-space byte of the block, quoted (a space, a
\* tab, a carriage return or a newline; the space eof hands over when the
\* block holds none), <t> the bytes of the block before it (the tag, and
\* the opening brace with it when no white space parts them), Offset the
\* count of bytes up to and with that byte (the length of the input for
\* eof's space); no error Read returns is getBlockForTag's.
C10_InvalidTagName ==
    pc = "done" =>
        /\ (round = 1 /\ data \in UnknownTagInputs) =>
              LET spaces == {i \in 1..Len(data) : isSpace(data[i])}
                  k == IF spaces = {} THEN Len(data) + 1
                       ELSE CHOOSE i \in spaces : \A j \in spaces : i <= j
                  c == IF spaces = {} THEN 32 ELSE data[k]
                  t == SubSeq(data, 1, k - 1)
              IN  /\ ret = [blocks |-> nil,
                            err |-> <<SyntaxError(<<"invalid character ", c, " ",
                                                    "invalid tag name: ", t>>,
                                                  IF spaces = {} THEN Len(data) ELSE k)>>]
                  /\ ErrorText(ret.err[1]) =
                         Text("invalid character ") \o quoteChar(c)
                         \o Text(" invalid tag name: ") \o t
        /\ ret.err # nil => "Offset" \in DOMAIN ret.err[1]

\* Read returned checkTag's error for a block whose unknown tag ends in a
\* tab: the tab is the byte the message quotes.
C10_Witness ==
    /\ pc = "done" /\ round = 1 /\ data \in UnknownTagInputs
    /\ data[Len(UnknownTag) + 1] = 9
    /\ Len(data) > Len(UnknownTag) + 3
    /\ ret.blocks = nil /\ ret.err # nil
    /\ ret.err[1].Offset = Len(UnknownTag) + 1
    /\ ErrorText(ret.err[1]) = Text("invalid character '\\t' invalid tag name: foo")

(***************************************************************************)
(* C11                                                                     *)
(***************************************************************************)
\* The context string error() was called with, "" for the end-of-input
\* error; checkTag's context ends in the tag name.
ErrorContext(e) ==
    IF Len(e.msg) >= 4
    THEN Text(e.msg[4]) \o (IF Len(e.msg) > 4 THEN GoString(e.msg[5]) ELSE <<>>)
    ELSE <<>>

\* C11 as stated: every buffer that has an opening brace, an opening bracket
\* or a tagged header inside the body of an open block makes Read fail with
\* the "exceeded max depth" error of pushParseState.
C11_NestingExceedsMaxDepth ==
    (pc = "done" /\ round = 1 /\ data \in NestedInputs) =>
        /\ ret.err # nil
        /\ ErrorContext(ret.err[1]) = Text("exceeded max depth")

\* C11, amended: no buffer makes Read fail with "exceeded max depth"; an
\* opener inside a body is body text, accepted in a dictionary value, in an
\* array value and in a text line, and refused with the error of the state it
\* meets elsewhere ("in key" for a dictionary line without a colon, "after
\* array element" after the first array line).
C11_OpenersAreBodyText ==
    (pc = "done" /\ round = 1) =>
        /\ ret.err # nil => ErrorContext(ret.err[1]) # Text("exceeded max depth")
        /\ \A doc \in NestedDocs :
              doc.text = data =>
                IF doc.context = "" THEN ret.err = nil
                ELSE ret.err # nil /\ ErrorContext(ret.err[1]) = Text(doc.context)

\* Read has returned the pair k: "get {" for a tagged header in a value.
C11_Witness ==
    /\ pc = "done" /\ round = 1
    /\ data = B(<<"m","e","t","a"," ","{","\n"," "," ","k",":"," ","g","e","t"," ","{","\n","}">>)
    /\ ret.err = nil
    /\ ret.blocks = <<DictionaryBlock(B(<<"m","e","t","a">>), <<>>,
                                      <<DictionaryElement(B(<<"k">>), B(<<"g","e","t"," ","{">>))>>)>>

(***************************************************************************)
(* C12                                                                     *)
(***************************************************************************)
\* C12: a dictionary block whose lines are `key:` then newline, or a key
\* with no colon, is accepted and read as the pairs {key, ""}.
C12_ValuelessLineDecodes ==
    \A doc \in ValuelessDocs :
        (data = doc.text /\ round = 1 /\ pc = "done") =>
            ret = [blocks |-> doc.blocks, err |-> nil]

(***************************************************************************)
(* C13                                                                     *)
(***************************************************************************)
\* Body lines that end before any ':'.
NoColonLines ==
    { B(<<" "," ","k","\n">>), B(<<" "," ","k",",","\n">>), B(<<",","k","\n">>) }

\* Dictionary blocks with a body line that has no ':' before its newline,
\* alone or next to other lines, the buffers of TestMetaWrong and
\* TestMetaWrong2, and a line whose key ends in an escape.
NoColonInputs ==
    { MetaHeader \o Flatten(ls) \o B(<<"}">>) \o t :
        ls \in {q \in SeqsUpTo(Lines, MaxLines) : \E i \in 1..Len(q) : q[i] \in NoColonLines},
        t \in Trailers }
    \cup {TestMetaWrongInput, TestMetaWrong2Input, EscapedKeyNoColonInput}

\* C13: checkValid refuses every dictionary block that has a body line with
\* no ':' before the end of the line, whether that line is the only one or
\* stands next to well-formed pairs.
C13_NoColonLineRejected ==
    (data \in NoColonInputs /\ round = 1 /\ pc # "Read") =>
        pc = "done" /\ ret.err # nil /\ ret.blocks = nil

(***************************************************************************)
(* C14                                                                     *)
(***************************************************************************)
\* Dictionary blocks with a line `key: ` that ends after the space, and the
\* buffer of TestMetaEmptyValue.
EmptyValueInputs ==
    { MetaHeader \o Flatten(ls) \o B(<<"}">>) \o t :
        ls \in {q \in SeqsUpTo(CanonLines, MaxLines) :
                  \E i \in 1..Len(q) : q[i] = B(<<" "," ","k",":"," ","\n">>)},
        t \in Trailers }
    \cup {TestMetaEmptyValueInput}

\* C14: checkValid refuses a dictionary block in which a key is followed by
\* ':' and then only whitespace up to the end of the line.
C14_EmptyValueRejected ==
    (data \in EmptyValueInputs /\ round = 1 /\ pc = "done") => ret.err # nil

(***************************************************************************)
(* C15                                                                     *)
(***************************************************************************)
\* A dictionary block with no pairs, alone or in front of other blocks, with
\* the blocks the buffer spells.
EmptyDictDocs ==
    { [text |-> MetaHeader \o B(<<"}">>) \o t,
       blocks |-> <<DictionaryBlock(B(<<"m","e","t","a">>), <<>>, <<>>)>>] : t \in Trailers }
    \cup { doc \in ManyDocs : doc.blocks[1].Content = <<>> }

\* C15: a dictionary block with no pairs is accepted by checkValid, and Read
\* returns for it one DictionaryBlock with empty Content, the closing brace
\* and the bytes after it not taken as a key or a value.
C15_EmptyDictionaryDecodes ==
    \A doc \in EmptyDictDocs :
        (data = doc.text /\ round = 1) =>
            /\ pc # "panic"
            /\ ~Stuck
            /\ pc = "done" => ret = [blocks |-> doc.blocks, err |-> nil]

(***************************************************************************)
(* C20                                                                     *)
(***************************************************************************)
\* C20: a backslash escape (one of b f n r t \ / " or u and four hex digits)
\* inside a dictionary key, a dictionary value or an array value is accepted,
\* the key or value goes on after it (a ':' after an escape in a key still
\* ends the key) and is decoded with the escape kept as written; a backslash
\* in front of any other byte makes checkValid fail.
C20_EscapesKeptInKeysAndValues ==
    /\ \A doc \in EscapeDocs :
         (data = doc.text /\ round = 1) =>
             /\ pc # "panic"
             /\ ~Stuck
             /\ pc = "done" => ret = [blocks |-> doc.blocks, err |-> nil]
    /\ (data \in BadEscapeInputs /\ round = 1 /\ pc # "Read") =>
         pc = "done" /\ ret.err # nil /\ ret.blocks = nil

(***************************************************************************)
(* C16                                                                     *)
(***************************************************************************)
\* The closing punctuation of a block.
ClosingByte(blk) == IF blk.kind = "ArrayBlock" THEN 93 ELSE 125

\* What marshal writes for a block up to and with its closing punctuation.
UpToCloser(blk, b) ==
    Only({ SubSeq(m, 1, Len(m) - 2) : m \in {marshalBlock(blk, b)} })

\* C16: for a non-empty sequence of blocks Write returns the blocks in
\* sequence order, one empty line between consecutive blocks, and the output
\* ends right after the closing punctuation of the last block when
\* addTrailingLineEnd is false and with exactly one newline after it when it
\* is true.
C16_BlocksInOrderOneBlankLine ==
    (pc \in {"written", "rewritten"} /\ ~out.panic /\ ret.blocks # <<>>) =>
        /\ out.err = nil
        /\ \A i \in 1..Len(ret.blocks) :
             \E t \in {UpToCloser(ret.blocks[i], enc)} :
                 t[Len(t)] = ClosingByte(ret.blocks[i]) /\ t[Len(t) - 1] = 10
        /\ out.out = Joined([i \in 1..Len(ret.blocks) |-> UpToCloser(ret.blocks[i], enc)],
                            [i \in 1..Len(ret.blocks) |-> <<10, 10>>])
                     \o (IF enc.addTrailingLineEnd THEN <<10>> ELSE <<>>)

\* Write has returned a dictionary block and a text block, in that order,
\* with the trailing newline asked for.
C16_Witness ==
    /\ pc = "written" /\ ~out.panic
    /\ Len(ret.blocks) = 2
    /\ ret.blocks[1].kind = "DictionaryBlock" /\ ret.blocks[2].kind = "TextBlock"
    /\ enc.addTrailingLineEnd
    /\ out.out[Len(out.out)] = 10 /\ out.out[Len(out.out) - 1] = 125

(***************************************************************************)
(* C17                                                                     *)
(***************************************************************************)
\* The tag of a block: its Name, then ':' and its Type when it has one.
BlockTag(blk) == blk.Name \o (IF blk.Type # <<>> THEN <<58>> \o blk.Type ELSE <<>>)

\* The variant of block that stands for a parse state of the scanner.
VariantOfParseState(ps) ==
    IF ps = parseArrayValue THEN "ArrayBlock"
    ELSE IF ps = parseTextValue THEN "TextBlock"
    ELSE "DictionaryBlock"

\* block() has just got its block from getBlockForTag and read the opening
\* brace or bracket: the scanner stands at the start of the body of the block
\* checkTag opened for the same tag.
TagJustResolved ==
    /\ block # NilBlock
    /\ \/ pc \in {"dict", "array"} /\ dic = <<>>
       \/ pc = "textWait" /\ d.opcode = scanBeginText
    /\ Len(d.scan.parseState) = 1

\* The tag table as C17 lists it.
ListedDictionaryTags ==
    { B(<<"m","e","t","a">>),
      B(<<"g","e","t">>),
      B(<<"p","o","s","t">>),
      B(<<"p","u","t">>),
      B(<<"d","e","l","e","t","e">>),
      B(<<"o","p","t","i","o","n","s">>),
      B(<<"t","r","a","c","e">>),
      B(<<"c","o","n","n","e","c","t">>),
      B(<<"h","e","a","d">>),
      B(<<"q","u","e","r","y">>),
      B(<<"h","e","a","d","e","r","s">>),
      B(<<"b","o","d","y">>),
      B(<<"b","o","d","y",":","j","s","o","n">>),
      B(<<"b","o","d","y",":","x","m","l">>),
      B(<<"b","o","d","y",":","f","o","r","m","-","u","r","l","e","n","c","o","d","e","d">>),
      B(<<"b","o","d","y",":","m","u","l","t","i","p","a","r","t","-","f","o","r","m">>),
      B(<<"b","o","d","y",":","g","r","a","p","h","q","l">>),
      B(<<"b","o","d","y",":","g","r","a","p","h","q","l",":","v","a","r","s">>),
      B(<<"s","c","r","i","p","t",":","p","r","e","-","r","e","q","u","e","s","t">>),
      B(<<"s","c","r","i","p","t",":","p","o","s","t","-","r","e","s","p","o","n","s","e">>),
      B(<<"a","s","s","e","r","t">>),
      B(<<"v","a","r","s">>) }

ListedArrayTags == { B(<<"v","a","r","s",":","s","e","c","r","e","t">>) }

ListedTextTags ==
    { B(<<"b","o","d","y",":","t","e","x","t">>),
      B(<<"t","e","s","t","s">>),
      B(<<"b","o","d","y",":","t","e","s","t">>) }

\* The tag table of tags and blockTypes.
DictionaryTags ==
    { B(<<"m","e","t","a">>),
      B(<<"g","e","t">>),
      B(<<"p","o","s","t">>),
      B(<<"p","u","t">>),
      B(<<"d","e","l","e","t","e">>),
      B(<<"o","p","t","i","o","n","s">>),
      B(<<"t","r","a","c","e">>),
      B(<<"c","o","n","n","e","c","t">>),
      B(<<"h","e","a","d">>),
      B(<<"q","u","e","r","y">>),
      B(<<"h","e","a","d","e","r","s">>),
      B(<<"b","o","d","y",":","f","o","r","m","-","u","r","l","e","n","c","o","d","e","d">>),
      B(<<"b","o","d","y",":","m","u","l","t","i","p","a","r","t","-","f","o","r","m">>),
      B(<<"a","s","s","e","r","t">>),
      B(<<"v","a","r","s">>) }

ArrayTags == { B(<<"v","a","r","s",":","s","e","c","r","e","t">>) }

TextTags ==
    { B(<<"b","o","d","y">>),
      B(<<"t","e","s","t","s">>),
      B(<<"b","o","d","y",":","t","e","x","t">>),
      B(<<"b","o","d","y",":","x","m","l">>),
      B(<<"b","o","d","y",":","g","r","a","p","h","q","l">>),
      B(<<"b","o","d","y",":","g","r","a","p","h","q","l",":","v","a","r","s">>),
      B(<<"s","c","r","i","p","t",":","p","r","e","-","r","e","q","u","e","s","t">>),
      B(<<"s","c","r","i","p","t",":","p","o","s","t","-","r","e","s","p","o","n","s","e">>),
      B(<<"b","o","d","y",":","t","e","s","t">>),
      B(<<"b","o","d","y",":","j","s","o","n">>) }

\* C17 as stated: every recognized tag resolves, in the scanner and in the
\* decoder alike, to the variant the list gives it (body, body:json,
\* body:xml, body:graphql, body:graphql:vars and the script tags to
\* dictionary).
C17_TagKindsAsListed ==
    TagJustResolved =>
        /\ VariantOfParseState(d.scan.parseState[1]) = block.kind
        /\ block.kind = "DictionaryBlock" <=> BlockTag(block) \in ListedDictionaryTags
        /\ block.kind = "ArrayBlock" <=> BlockTag(block) \in ListedArrayTags
        /\ block.kind = "TextBlock" <=> BlockTag(block) \in ListedTextTags

\* C17, amended: checkTag and getBlockForTag resolve every tag of the table
\* to the same variant, which is text for body, tests, body:text, body:xml,
\* body:graphql, body:graphql:vars, script:pre-request, script:post-response,
\* body:test and body:json, array for vars:secret and dictionary for the
\* other tags.
C17_TagKindsOfTable ==
    TagJustResolved =>
        /\ VariantOfParseState(d.scan.parseState[1]) = block.kind
        /\ block.kind = "DictionaryBlock" <=> BlockTag(block) \in DictionaryTags
        /\ block.kind = "ArrayBlock" <=> BlockTag(block) \in ArrayTags
        /\ block.kind = "TextBlock" <=> BlockTag(block) \in TextTags

\* block() stands in front of the text of a body:json block, the scanner in
\* a text block.
C17_Witness ==
    /\ pc = "textWait"
    /\ block = TextBlock(B(<<"b","o","d","y">>), B(<<"j","s","o","n">>), <<>>)
    /\ d.scan.parseState = <<parseTextValue>>

(***************************************************************************)
(* The scanner on its own, call by call, as Read drives it.  checkValid    *)
(* (pc = "scan") counts each byte and hands it to s.step, and returns the  *)
(* error of the first step that fails (pc = "failed"); when the buffer is  *)
(* used up it calls eof and returns its error or nil (pc = "valid").  On   *)
(* nil, init and unmarshal set the offset back and reset the scanner       *)
(* (pc = "rescan") and the decoder hands the bytes to s.step again, this   *)
(* time uncounted, and calls eof at the end of the buffer, for as long as  *)
(* value() and block() ask for one more opcode.  The buffers end in every  *)
(* state of the scanner.                                                   *)
(***************************************************************************)
\* Two whole blocks and what stands between them.
TwoBlockInputs == { b1 \o sep \o b2 : b1 \in BlockTexts, b2 \in BlockTexts, sep \in Separators }

\* The buffers handed to the scanner byte by byte.
ScanInputs ==
    OneBlockInputs \cup PrefixInputs \cup VarsSecretInputs \cup TestInputs \cup TagInputs
    \cup NestedInputs \cup EscapeInputs \cup TwoBlockInputs \cup ArrayCloseInputs
    \cup EmptyFileInputs \cup OpenerInputs

ScanStart == [off |-> 0, opcode |-> 0, scan |-> reset(ZeroScanner)]

ScanInit ==
    /\ data \in ScanInputs
    /\ pc = "scan"
    /\ d = ScanStart
    /\ start = StartState.start
    /\ block = StartState.block
    /\ dic = StartState.dic
    /\ blocks = StartState.blocks
    /\ ret = StartState.ret
    /\ enc = DefaultEncoder
    /\ out = NoOut
    /\ round = 1
    /\ first = [data |-> <<>>, blocks |-> <<>>]
    /\ NoPool

\* All but the scanner and the position of its caller.
OnlyScanner ==
    UNCHANGED <<data, start, block, dic, blocks, ret, enc, out, round, first>> /\ PoolRest

\* checkValid: scan.bytes++; scan.step(scan, c) on the next byte of data, and
\* the return on scanError.
ScanStepCall ==
    /\ pc = "scan" /\ d.off < Len(data)
    /\ \E r \in {Step([d.scan EXCEPT !.bytes = d.scan.bytes + 1], data[d.off + 1])} :
         /\ d' = [off |-> d.off + 1, opcode |-> r.op, scan |-> r.s]
         /\ pc' = IF r.op = scanError THEN "failed" ELSE "scan"
    /\ OnlyScanner

\* checkValid: scan.eof() after the loop, and the return of its error or nil.
ScanEofCall ==
    /\ pc = "scan" /\ d.off = Len(data)
    /\ \E r \in {eof(d.scan)} :
         /\ d' = [d EXCEPT !.opcode = r.op, !.scan = r.s]
         /\ pc' = IF r.op = scanError THEN "failed" ELSE "valid"
    /\ OnlyScanner

\* Read after checkValid has returned nil: d.init sets the offset back,
\* unmarshal calls d.scan.reset(); the byte count is not set back.
ScanResetCall ==
    /\ pc = "valid"
    /\ d' = [d EXCEPT !.scan = reset(d.scan), !.off = 0]
    /\ pc' = "rescan"
    /\ OnlyScanner

\* The decoder asks for one more opcode: scanNext, and each turn of
\* scanWhile, hands the next byte to s.step without counting it, or calls
\* eof when the buffer is used up.  The decoder hands over the bytes in
\* order and asks no more once value() has left its loop, block() has
\* returned an error or Read has panicked: the offset Read ends with is the
\* offset of its last call (a loop of block() that never ends goes on
\* calling eof, which changes nothing).
ScanNextCall ==
    /\ pc = "rescan"
    /\ d.off < Read(data).d.off
    /\ d' = scanNext(data, d)
    /\ pc' = pc
    /\ OnlyScanner

ScanNext ==
    \/ ScanStepCall
    \/ ScanEofCall
    \/ ScanResetCall
    \/ ScanNextCall

ScanSpec == ScanInit /\ [][ScanNext]_vars

(***************************************************************************)
(* C18                                                                     *)
(***************************************************************************)
\* C18: after any sequence of step and eof calls following reset the parse
\* stack holds at most one entry; a call pushes an entry only when the stack
\* is empty and the call hands a space to stateReadingTag with a tag of the
\* table read; an entry leaves the stack only when a step call is handed the
\* closing punctuation of its block (or on reset).
C18_StackAtMostOne ==
    /\ [](Len(d.scan.parseState) <= 1)
    /\ [][ LET StepCalled == ScanStepCall \/ (ScanNextCall /\ d.off < Len(data))
               EofCalled == ScanEofCall \/ (ScanNextCall /\ d.off >= Len(data))
           IN  /\ Len(d'.scan.parseState) > Len(d.scan.parseState) =>
                    /\ d.scan.parseState = <<>>
                    /\ d.scan.step = "stateReadingTag"
                    /\ TagIndex(d.scan.tagName) # 0
                    /\ EofCalled \/ (StepCalled /\ isSpace(data[d'.off]))
               /\ (Len(d'.scan.parseState) < Len(d.scan.parseState) /\ ~ScanResetCall) =>
                    /\ StepCalled
                    /\ data[d'.off] = IF d.scan.parseState[1] = parseArrayValue THEN 93 ELSE 125 ]_vars

\* A second block has been opened after the first one was closed: the stack
\* holds the one entry of the second block.
C18_Witness ==
    /\ pc = "rescan"
    /\ data \in TwoBlockInputs
    /\ Len(d.scan.parseState) = 1
    /\ d.scan.step = "stateOpenBlock"
    /\ \E i \in 1..(d.off - 1) : data[i] \in {93, 125} /\ (i = 1 \/ data[i - 1] = 10)

(***************************************************************************)
(* C19                                                                     *)
(***************************************************************************)
\* The scanner is in the error state with its error recorded.
InErrorState == d.scan.step = "stateError" /\ d.scan.err # nil

\* C19: a step call that returns scanError leaves the scanner in the error
\* state; from then on, until reset, every step call and every eof call
\* returns scanError and the recorded error, message and offset, stays the
\* one of the first failure.  No caller makes a call between the failure
\* and the reset, so the later calls are those of step and eof applied to
\* the scanner as the failure left it: whatever the byte, and whether or not
\* the caller has counted it, they return scanError and leave the scanner
\* as it was, so that the same holds for the call after.
C19_ErrorIsSticky ==
    /\ [][((ScanStepCall \/ (ScanNextCall /\ d.off < Len(data))) /\ d'.opcode = scanError) =>
             InErrorState']_vars
    /\ [](InErrorState =>
            /\ d.opcode = scanError
            /\ eof(d.scan) = Ret(d.scan, scanError)
            /\ \A c \in 0..255 :
                  \A s \in {d.scan, [d.scan EXCEPT !.bytes = d.scan.bytes + 1]} :
                     Step(s, c) = Ret(s, scanError))

\* A step has failed before the end of the buffer: bytes are left that a
\* later call could be handed, and the next of them is refused with the
\* recorded error kept.
C19_Witness ==
    /\ pc = "failed"
    /\ InErrorState
    /\ d.opcode = scanError
    /\ d.off < Len(data)
    /\ d.scan.err[1].Offset = d.off
    /\ Step([d.scan EXCEPT !.bytes = d.scan.bytes + 1], data[d.off + 1]).s.err = d.scan.err

(***************************************************************************)
(* C21                                                                     *)
(***************************************************************************)
\* C21: whenever a ']' closes an array block the step call returns
\* scanEndArray, and whenever a '}' closes a dictionary or text block it
\* returns scanEndBlock, in every state from which the block can be closed
\* (empty body, after a value, after a ',' separator).
C21_CloseOpcodeByKind ==
    [][ (/\ ScanStepCall \/ (ScanNextCall /\ d.off < Len(data))
         /\ Len(d.scan.parseState) = 1
         /\ d'.scan.parseState = <<>>) =>
            d'.opcode = IF d.scan.parseState[1] = parseArrayValue THEN scanEndArray
                        ELSE scanEndBlock ]_vars

(***************************************************************************)
(* C22                                                                     *)
(***************************************************************************)
\* C22: a text block that is closed immediately after its opening line
\* decodes to a TextBlock whose Content is the empty string; stripping the
\* trailing newline of the joined lines never slices outside the string.
C22_EmptyTextDecodes ==
    \A t \in Trailers :
        (data = B(<<"t","e","s","t","s"," ","{","\n","}">>) \o t /\ round = 1) =>
            /\ pc # "panic"
            /\ ~Stuck
            /\ pc = "done" =>
                   ret = [blocks |-> <<TextBlock(B(<<"t","e","s","t","s">>), <<>>, <<>>)>>,
                          err |-> nil]

(***************************************************************************)
(* C23                                                                     *)
(***************************************************************************)
\* C23: a buffer with no block in it (empty, or white space only) is a valid
\* file: checkValid accepts it and Read returns an empty block sequence and
\* no error.
C23_EmptyFileIsValid ==
    (data \in EmptyFileInputs /\ round = 1) =>
        /\ Valid(data)
        /\ pc # "panic"
        /\ ~Stuck
        /\ pc = "done" => ret = [blocks |-> <<>>, err |-> nil]

(***************************************************************************)
(* Valid on scannerPool: goroutines call Valid concurrently.  A scanner is  *)
(* an address in heap; scannerPool.Get hands out an address that was Put,   *)
(* taking it from the pool, or the address of a new scanner{} from New;     *)
(* Put gives the address back.  A call scans its buffer byte by byte, the   *)
(* steps of the goroutines interleaved.                                     *)
(***************************************************************************)
MaxGoroutines == 2

\* Valid calls made in all.
MaxValidCalls == 3

Goroutines == 1..MaxGoroutines

\* The buffers handed to Valid: accepted, refused at a byte, refused at eof.
PoolInputs ==
    { B(<<"g","e","t"," ","{","}">>),
      B(<<"a"," ">>),
      B(<<"g","e","t"," ","{">>) }

\* A goroutine outside Valid; n counts the calls it has made, got is the
\* scanner as scannerPool.Get() returned it.
IdleCall ==
    [pc |-> "idle", data |-> <<>>, scan |-> 0, i |-> 0, ret |-> nil, n |-> 0, got |-> ZeroScanner]

\* The Valid calls the goroutines 1..g have made.
RECURSIVE CallsMade(_)
CallsMade(g) == IF g = 0 THEN 0 ELSE calls[g].n + CallsMade(g - 1)

\* newScanner without the byte count set back.
newScannerKeepBytes(s) == reset(s)

\* newScanner, on the scanner scannerPool.Get() returned.
newScanner(s) == reset([s EXCEPT !.bytes = 0])

\* freeScanner, up to the Put: the scanner as it is put back.
freeScanner(s) == IF Len(s.parseState) > 1024 THEN [s EXCEPT !.parseState = <<>>] ELSE s

PoolInit ==
    /\ data = <<>>
    /\ pc = "pool"
    /\ d = StartState.d
    /\ start = StartState.start
    /\ block = StartState.block
    /\ dic = StartState.dic
    /\ blocks = StartState.blocks
    /\ ret = StartState.ret
    /\ enc = DefaultEncoder
    /\ out = NoOut
    /\ round = 1
    /\ first = [data |-> <<>>, blocks |-> <<>>]
    /\ heap = <<>>
    /\ pool = {}
    /\ calls = [g \in Goroutines |-> IdleCall]

OnlyPool == UNCHANGED <<data, pc, d, start, block, dic, blocks, ret, enc, out, round, first>>

\* The call is entered with the scanner at address a: newScanner's bytes = 0
\* and reset, then checkValid's reset.
Enter(g, buf, a, got) ==
    calls' = [calls EXCEPT ![g] = [pc |-> "loop", data |-> buf, scan |-> a, i |-> 0,
                                   ret |-> nil, n |-> calls[g].n + 1, got |-> got]]

\* Valid(buf): scannerPool.Get() returns a scanner that was put back.
ValidGet(g) ==
    /\ pc = "pool" /\ calls[g].pc = "idle" /\ CallsMade(MaxGoroutines) < MaxValidCalls
    /\ \E buf \in PoolInputs, a \in pool :
         /\ pool' = pool \ {a}
         /\ heap' = [heap EXCEPT ![a] = reset(newScanner(heap[a]))]
         /\ Enter(g, buf, a, heap[a])
    /\ OnlyPool

\* Valid(buf): scannerPool.Get() finds nothing to hand out and calls New.
ValidNew(g) ==
    /\ pc = "pool" /\ calls[g].pc = "idle" /\ CallsMade(MaxGoroutines) < MaxValidCalls
    /\ \E buf \in PoolInputs :
         /\ heap' = Append(heap, reset(newScanner(ZeroScanner)))
         /\ Enter(g, buf, Len(heap) + 1, ZeroScanner)
    /\ pool' = pool
    /\ OnlyPool

\* checkValid: one turn of the loop over the bytes.
ValidStep(g) ==
    /\ pc = "pool" /\ calls[g].pc = "loop" /\ calls[g].i < Len(calls[g].data)
    /\ \E r \in {Step([heap[calls[g].scan] EXCEPT !.bytes = heap[calls[g].scan].bytes + 1],
                      calls[g].data[calls[g].i + 1])} :
         /\ heap' = [heap EXCEPT ![calls[g].scan] = r.s]
         /\ calls' = [calls EXCEPT ![g] =
                        IF r.op = scanError
                        THEN [calls[g] EXCEPT !.pc = "free", !.ret = r.s.err]
                        ELSE [calls[g] EXCEPT !.i = calls[g].i + 1]]
    /\ pool' = pool
    /\ OnlyPool

\* checkValid: scan.eof() after the last byte.
ValidEof(g) ==
    /\ pc = "pool" /\ calls[g].pc = "loop" /\ calls[g].i = Len(calls[g].data)
    /\ \E r \in {eof(heap[calls[g].scan])} :
         /\ heap' = [heap EXCEPT ![calls[g].scan] = r.s]
         /\ calls' = [calls EXCEPT ![g] =
                        [calls[g] EXCEPT !.pc = "free",
                                         !.ret = IF r.op = scanError THEN r.s.err ELSE nil]]
    /\ pool' = pool
    /\ OnlyPool

\* The deferred freeScanner(scan): Valid returns checkValid(...) == nil.
ValidFree(g) ==
    /\ pc = "pool" /\ calls[g].pc = "free"
    /\ heap' = [heap EXCEPT ![calls[g].scan] = freeScanner(heap[calls[g].scan])]
    /\ pool' = pool \cup {calls[g].scan}
    /\ calls' = [calls EXCEPT ![g] = [IdleCall EXCEPT !.n = calls[g].n]]
    /\ OnlyPool

PoolNext ==
    \E g \in Goroutines :
        \/ ValidGet(g)
        \/ ValidNew(g)
        \/ ValidStep(g)
        \/ ValidEof(g)
        \/ ValidFree(g)

PoolSpec == PoolInit /\ [][PoolNext]_vars

(***************************************************************************)
(* C24                                                                     *)
(***************************************************************************)
\* C24: a scanner taken from the pool is fully reset before use (step
\* function, parse stack, error, end flag, tag buffer and byte count are those
\* of a fresh scanner); it is held by at most one Valid call between
\* newScanner and freeScanner; and the error checkValid gives Valid for a
\* buffer, its offset included, is the one a call on a fresh scanner gives,
\* whatever calls ran before or run at the same time.
C24_PooledScannerIsFresh ==
    LET Holds(g) == calls[g].pc \in {"loop", "free"}
    IN  \A g \in DOMAIN calls :
            /\ (calls[g].pc = "loop" /\ calls[g].i = 0) =>
                   heap[calls[g].scan] = reset(ZeroScanner)
            /\ Holds(g) =>
                   /\ calls[g].scan \in 1..Len(heap)
                   /\ calls[g].scan \notin pool
                   /\ \A h \in DOMAIN calls :
                          (h # g /\ Holds(h)) => calls[h].scan # calls[g].scan
            /\ calls[g].pc = "free" =>
                   calls[g].ret = checkValid(calls[g].data, ZeroScanner).err

\* A call has accepted its buffer on a scanner that an earlier call had left
\* in the error state, bytes counted, and put back, while another goroutine
\* is in the middle of its own buffer.
C24_Witness ==
    \E g, h \in DOMAIN calls :
        /\ g # h
        /\ calls[g].pc = "free" /\ calls[g].ret = nil /\ calls[g].data # <<>>
        /\ calls[g].got.step = "stateError" /\ calls[g].got.err # nil /\ calls[g].got.bytes > 0
        /\ calls[h].pc = "loop" /\ calls[h].i > 0

(***************************************************************************)
(* C25                                                                     *)
(***************************************************************************)
\* The loop of checkValid over the bytes i..j of buf with the begin-tag
\* opcodes counted: l is [scan, n].  A step that returns scanError ends the
\* loop.  The range is walked in halves, in order.
RECURSIVE BeginTagRange(_, _, _, _)
BeginTagRange(buf, l, i, j) ==
    IF l.scan.err # nil \/ i > j THEN l
    ELSE IF i = j
    THEN Only({ [scan |-> r.s, n |-> IF r.op = scanBeginTag THEN l.n + 1 ELSE l.n] :
                r \in {Step([l.scan EXCEPT !.bytes = l.scan.bytes + 1], buf[i])} })
    ELSE Only({ BeginTagRange(buf, left, ((i + j) \div 2) + 1, j) :
                left \in {BeginTagRange(buf, l, i, (i + j) \div 2)} })

\* The begin-tag opcodes the validation pass of Read sees on buf.
BeginTags(buf) == BeginTagRange(buf, [scan |-> reset(ZeroScanner), n |-> 0], 1, Len(buf)).n

\* C25: for every buffer on which Read succeeds, the number of blocks it
\* returns is the number of begin-tag opcodes the validation pass saw: no
\* block that was validated is missing from the result.
C25_NoValidatedBlockDropped ==
    (round = 1 /\ pc = "done" /\ ret.err = nil) => Len(ret.blocks) = BeginTags(data)

(***************************************************************************)
(* C26                                                                     *)
(***************************************************************************)
\* C26: in a scan that has not reported an error the opcodes of each block
\* come in the order begin-tag, end-tag, one begin opcode of the kind the tag
\* table gives for the tag and on the opening punctuation of that kind, body
\* opcodes, one end-block or end-array; no begin-tag is reported while a
\* block is open; the end flag is set exactly when the last thing scanned
\* closed a block and no tag has begun since, and then the parse stack is
\* empty.
C26_OpcodeOrderAndEndFlag ==
    /\ [][
            LET \* Where a scanner stands: between blocks, in a tag, between the tag
                \* and the opening punctuation, or in a body.
                Phase(s) ==
                    IF s.parseState = <<>>
                    THEN IF s.step = "stateReadingTag" THEN "tag" ELSE "top"
                    ELSE IF s.step = "stateWaitingForOpenBlock" THEN "open" ELSE "body"
                \* The begin opcode and the opening byte of the block of a parse state.
                BeginOpcode(ps) ==
                    IF ps = parseArrayValue THEN scanBeginArray
                    ELSE IF ps = parseTextValue THEN scanBeginText
                    ELSE scanBeginDictionary
                Opener(ps) == IF ps = parseArrayValue THEN 91 ELSE 123
                \* The parse state of a kind of block.
                ParseStateOf(t) ==
                    IF t = dictionaryBlock THEN parseDictionaryKey
                    ELSE IF t = arrayBlock THEN parseArrayValue
                    ELSE parseTextValue
                \* The phase a call is made in, its opcode and the phase it leads to.
                OpcodeOrder ==
                    { <<"top", scanSkipSpace, "top">>, <<"top", scanEnd, "top">>,
                      <<"top", scanBeginTag, "tag">>,
                      <<"tag", scanContinue, "tag">>, <<"tag", scanEndTag, "open">>,
                      <<"open", scanSkipSpace, "open">>,
                      <<"open", scanBeginDictionary, "body">>, <<"open", scanBeginText, "body">>,
                      <<"open", scanBeginArray, "body">>,
                      <<"body", scanEndBlock, "top">>, <<"body", scanEndArray, "top">> }
                    \cup { <<"body", op, "body">> :
                             op \in {scanContinue, scanSkipSpace, scanArrayValue, scanDictionaryKey,
                                     scanDictionaryValue, scanTextLine} }
                \* A step or eof call of a scan that has reported no error.
                CleanCall ==
                    /\ ScanStepCall \/ ScanEofCall \/ ScanNextCall
                    /\ d.scan.err = nil /\ d'.scan.err = nil
                    /\ d'.opcode # scanError
            IN  CleanCall =>
                    /\ <<Phase(d.scan), d'.opcode, Phase(d'.scan)>> \in OpcodeOrder
                    /\ d'.opcode = scanEndTag =>
                           /\ TagIndex(d.scan.tagName) # 0
                           /\ d'.scan.parseState =
                                  <<ParseStateOf(blockTypes[TagIndex(d.scan.tagName)])>>
                    /\ Phase(d.scan) = "open" =>
                           /\ d'.scan.parseState = d.scan.parseState
                           /\ Phase(d'.scan) = "body" =>
                                  /\ d'.opcode = BeginOpcode(d.scan.parseState[1])
                                  /\ data[d'.off] = Opener(d.scan.parseState[1])
                    /\ d'.scan.endBlock =
                           IF d'.opcode \in {scanEndBlock, scanEndArray} THEN TRUE
                           ELSE IF d'.opcode = scanBeginTag THEN FALSE
                           ELSE d.scan.endBlock
       ]_vars
    /\ [][ScanResetCall => ~d'.scan.endBlock]_vars
    /\ [](d.scan.endBlock => d.scan.parseState = <<>> /\ d.scan.step = "stateBeginBlockLine")

\* The second of two blocks has just been closed, the scan has reported no
\* error and the end flag is set.
C26_Witness ==
    /\ pc = "scan"
    /\ data \in TwoBlockInputs
    /\ d.off = Len(data) /\ d.scan.bytes = d.off
    /\ d.scan.err = nil
    /\ d.scan.endBlock
    /\ d.opcode \in {scanEndBlock, scanEndArray}
    /\ BeginTags(data) = 2

=============================================================================
